---- MODULE Spec2Model ----
(***************************************************************************)
(* A model of palla::vec_list (src/header/vec_list.h, the second, complete *)
(* definition of the class, lines 381-846): a doubly-linked list stored in *)
(* buckets of nodes, with an embedded singly-linked chain of holes.        *)
(*                                                                         *)
(* Two list objects (this / other) share one heap.  A node address is a    *)
(* pair <<bucket, slot>>; a bucket is a std::vector<node>, identified by a *)
(* number, and lives until the std::vector that holds it is destroyed.     *)
(***************************************************************************)
EXTENDS Integers, Sequences, FiniteSets, TLC

\* ------------------------------------------------------------------ bounds
MaxVal == 2
MaxElems == 3
MaxSlots == 4
MaxBuckets == 6
MaxReserve == 5
\* The size of the smallest user bucket in the model.
MinBucket == 2
\* The slots of the user buckets, and the elements, of a list that
\* optimize() moves into a bucket larger than the list.
MaxRefillSlots == 7
MaxRefillElems == 4
\* The slots of the user buckets of both lists where a list takes the whole
\* of the other more than once, and where two lists differ in capacity.
MaxSpliceSlots == 6

\* ------------------------------------------------- constants of the program
\* MIN_BUCKET_SIZE is 16 in the source; the model keeps the constant but
\* scales it down to MinBucket so that a full bucket, and the growth that
\* follows it, is reached with a handful of elements.  No definition depends
\* on its value.
MIN_BUCKET_SIZE == MinBucket
GROWTH_FACTOR == 2
\* size_t arithmetic wraps; the model wraps modulo SIZE_MOD instead of 2^64.
\* Every size in the model is far below both, so a difference wraps in the
\* model exactly when it wraps in the program.
SIZE_MOD == 2^16
\* The largest element count std::vector<node> accepts (max_size()): a request
\* above it throws std::length_error.
VECTOR_MAX == 2^12

Lists == {1, 2}
\* The temporary vec_list{} of splice(); it exists only inside that call.
Temp == 0
Objects == Lists \cup {Temp}
Values == 1..MaxVal
\* T{} for the element type of the model (an integer): value-initialisation.
DefaultValue == 0

\* nullptr
Null == <<0, 0>>
\* std::nullopt / a present payload
NullOpt == <<>>
Some(v) == <<v>>

VARIABLES
    next,           \* node -> node        (node::next)
    prev,           \* node -> node        (node::prev)
    elem,           \* node -> optional    (node::elem)
    bsize,          \* bucket -> number of nodes of that std::vector<node>
    m_buckets,      \* list -> sequence of buckets (m_buckets)
    m_first_hole,   \* list -> node or Null
    m_last_hole,    \* list -> node or Null
    m_size,         \* list -> number of elements
    m_capacity,     \* list -> number of elements and holes
    fault,          \* "none", or how the program stopped
    ref,            \* list -> the std::list the tests run next to the vec_list
    iters,          \* list -> the iterators the caller holds, in list order
    last            \* the operation that produced this state

vars == <<next, prev, elem, bsize, m_buckets, m_first_hole, m_last_hole,
          m_size, m_capacity, fault, ref, iters, last>>

\* The program state as one record, so that the member functions can be
\* written as functions from state to state.
W == [next |-> next, prev |-> prev, elem |-> elem, bsize |-> bsize,
      m_buckets |-> m_buckets, m_first_hole |-> m_first_hole,
      m_last_hole |-> m_last_hole, m_size |-> m_size,
      m_capacity |-> m_capacity, fault |-> fault]

Commit(w) ==
    /\ next' = w.next
    /\ prev' = w.prev
    /\ elem' = w.elem
    /\ bsize' = w.bsize
    /\ m_buckets' = w.m_buckets
    /\ m_first_hole' = w.m_first_hole
    /\ m_last_hole' = w.m_last_hole
    /\ m_size' = w.m_size
    /\ m_capacity' = w.m_capacity
    /\ fault' = w.fault

Commit0(w) ==
    /\ next = w.next
    /\ prev = w.prev
    /\ elem = w.elem
    /\ bsize = w.bsize
    /\ m_buckets = w.m_buckets
    /\ m_first_hole = w.m_first_hole
    /\ m_last_hole = w.m_last_hole
    /\ m_size = w.m_size
    /\ m_capacity = w.m_capacity
    /\ fault = w.fault

\* ------------------------------------------------------------------- heap
NodesOf(b, n) == {<<b, i>> : i \in 0..(n - 1)}
Valid(w, p) == p \in DOMAIN w.next

Fault(w, what) == IF w.fault = "none" THEN [w EXCEPT !.fault = what] ELSE w

\* Sequencing of statements: a is computed once, and F continues with it.
Bind(a, F(_)) == F(a)

\* Every pointer stored anywhere in the state.
Pointers(w) ==
    {w.next[n] : n \in DOMAIN w.next} \cup {w.prev[n] : n \in DOMAIN w.prev}
    \cup {w.m_first_hole[l] : l \in Objects} \cup {w.m_last_hole[l] : l \in Objects}

\* The allocator returns storage that is not in use.  The model also keeps it
\* apart from storage a stale pointer still designates, so that a dangling
\* pointer stays recognisable.
FreeIds(w) ==
    {b \in 1..MaxBuckets : b \notin DOMAIN w.bsize /\ \A p \in Pointers(w) : p[1] # b}
FreshBucket(w) ==
    IF FreeIds(w) = {} THEN 0
    ELSE CHOOSE b \in FreeIds(w) : \A c \in FreeIds(w) : b <= c

\* std::vector<node>(n): n value-initialised nodes.
NewBucket(w, b, n) ==
    [w EXCEPT !.bsize = b :> n @@ @,
              !.next = [x \in NodesOf(b, n) |-> Null] @@ @,
              !.prev = [x \in NodesOf(b, n) |-> Null] @@ @,
              !.elem = [x \in NodesOf(b, n) |-> NullOpt] @@ @]

Restrict(f, S) == [x \in S |-> f[x]]

\* Destruction of the std::vector<node>s in bs.
FreeBuckets(w, bs) ==
    LET keep == DOMAIN w.bsize \ bs
        live == UNION {NodesOf(b, w.bsize[b]) : b \in keep}
    IN [w EXCEPT !.bsize = Restrict(@, keep),
                 !.next = Restrict(@, live),
                 !.prev = Restrict(@, live),
                 !.elem = Restrict(@, live)]

\* &m_buckets[bucket_index][i] (bucket_index counted from 0 as in the source)
Bucket(w, l, bucket_index) == w.m_buckets[l][bucket_index + 1]
NodeAt(w, l, bucket_index, i) == <<Bucket(w, l, bucket_index), i>>
BucketSize(w, b) == w.bsize[b]
Back(w, b) == <<b, w.bsize[b] - 1>>

\* end() is &m_buckets[0][0]; begin() is m_buckets[0][1].next
\* An entry of m_buckets whose vector is empty: moved out and cleared, or
\* created by m_buckets.resize(1) on an empty m_buckets.
Moved == 0
HasSentinels(w, l) == Len(w.m_buckets[l]) >= 1 /\ w.m_buckets[l][1] # Moved
End(w, l) == NodeAt(w, l, 0, 0)
RendNode(w, l) == NodeAt(w, l, 0, 1)
Begin(w, l) == w.next[RendNode(w, l)]

Max(a, b) == IF a >= b THEN a ELSE b
\* Unsigned arithmetic of size_t.
Wrap(x) == x % SIZE_MOD

SetNext(w, p, v) ==
    IF w.fault # "none" THEN w
    ELSE IF ~Valid(w, p) THEN Fault(w, "bad_pointer")
    ELSE [w EXCEPT !.next[p] = v]

SetPrev(w, p, v) ==
    IF w.fault # "none" THEN w
    ELSE IF ~Valid(w, p) THEN Fault(w, "bad_pointer")
    ELSE [w EXCEPT !.prev[p] = v]

\* ------------------------------------------------------------- traversal
\* The nodes ++it visits from p up to, not including, stop; it ends early
\* at a pointer that is not an allocated node, and after fuel steps.
RECURSIVE FollowNext(_, _, _, _)
FollowNext(w, p, stop, fuel) ==
    IF p = stop \/ fuel = 0 \/ ~Valid(w, p) THEN <<>>
    ELSE <<p>> \o FollowNext(w, w.next[p], stop, fuel - 1)

RECURSIVE FollowPrev(_, _, _, _)
FollowPrev(w, p, stop, fuel) ==
    IF p = stop \/ fuel = 0 \/ ~Valid(w, p) THEN <<>>
    ELSE <<p>> \o FollowPrev(w, w.prev[p], stop, fuel - 1)

\* Where such a walk stops.
RECURSIVE ReachNext(_, _, _, _)
ReachNext(w, p, stop, fuel) ==
    IF p = stop \/ fuel = 0 \/ ~Valid(w, p) THEN p
    ELSE ReachNext(w, w.next[p], stop, fuel - 1)

Fuel(w) == Cardinality(DOMAIN w.next) + 1

\* for (it = begin(); it != end(); ++it)
ForwardNodes(w, l) ==
    IF HasSentinels(w, l) THEN FollowNext(w, Begin(w, l), End(w, l), Fuel(w)) ELSE <<>>
ForwardComplete(w, l) ==
    HasSentinels(w, l) /\ ReachNext(w, Begin(w, l), End(w, l), Fuel(w)) = End(w, l)
\* for (it = rbegin(); it != rend(); ++it): from prev(end()) down to begin()
BackwardNodes(w, l) ==
    IF HasSentinels(w, l)
    THEN FollowPrev(w, w.prev[End(w, l)], RendNode(w, l), Fuel(w)) ELSE <<>>

ValuesAt(w, ns) ==
    [i \in 1..Len(ns) |-> IF Valid(w, ns[i]) THEN w.elem[ns[i]] ELSE NullOpt]
Payloads(vs) == [i \in 1..Len(vs) |-> Some(vs[i])]
Reverse(s) == [i \in 1..Len(s) |-> s[Len(s) + 1 - i]]

\* The hole chain from m_first_hole.
HoleNodes(w, l) == FollowNext(w, w.m_first_hole[l], Null, Fuel(w))
HoleChainEnds(w, l) == ReachNext(w, w.m_first_hole[l], Null, Fuel(w)) = Null
SeqToSet(s) == {s[i] : i \in 1..Len(s)}

\* ------------------------------------------------------- private functions
\* A variant that forgets next->prev.
link_two_nodes_forward_only(w, p, n) ==
    IF p # Null THEN SetNext(w, p, n) ELSE w

link_two_nodes(w, p, n) ==
    LET w1 == IF n # Null THEN SetPrev(w, n, p) ELSE w
    IN IF p # Null THEN SetNext(w1, p, n) ELSE w1

\* The three assertions of this function stop the program as "fill_assert",
\* apart from the assertions of the other functions.
fill_bucket_with_holes(w, l, bucket_index, elem_index) ==
    IF w.fault # "none" THEN w
    ELSE IF ~(bucket_index > 0 /\ bucket_index < Len(w.m_buckets[l]))
    THEN Fault(w, "fill_assert")
    ELSE
    LET b == Bucket(w, l, bucket_index)
        n == BucketSize(w, b)
        fh == w.m_first_hole[l]
        range == {<<b, i>> : i \in elem_index..(n - 1)}
    IN
    IF ~(elem_index < n) THEN Fault(w, "fill_assert")
    ELSE IF fh[1] = b /\ fh[2] >= elem_index THEN Fault(w, "fill_assert")
    ELSE
    \* Clear the bucket.
    Bind([w EXCEPT
            !.next = [x \in DOMAIN @ |-> IF x \in range THEN <<b, x[2] + 1>> ELSE @[x]],
            !.prev = [x \in DOMAIN @ |-> IF x \in range THEN <<b, x[2] - 1>> ELSE @[x]],
            !.elem = [x \in DOMAIN @ |-> IF x \in range THEN NullOpt ELSE @[x]]],
         LAMBDA w1 :
    \* Link to the first hole.
    Bind(SetPrev(link_two_nodes(w1, Back(w1, b), fh), <<b, elem_index>>, Null),
         LAMBDA w3 :
    IF w3.fault # "none" THEN w3
    ELSE [w3 EXCEPT
            !.m_first_hole[l] = <<b, elem_index>>,
            !.m_last_hole[l] =
                IF @ = Null THEN Back(w3, w3.m_buckets[l][Len(w3.m_buckets[l])]) ELSE @]))

\* A variant that already grows when the request exactly fills the capacity.
resize_to_fit_eager(w, l, nb_new_elements, is_reserve) ==
    IF w.fault # "none" THEN w
    ELSE
    LET capacity_required == Wrap(w.m_size[l] + nb_new_elements)
        size0 == Max(MIN_BUCKET_SIZE, Wrap(capacity_required - w.m_capacity[l]))
        bucket_size ==
            IF is_reserve THEN size0
            ELSE Max(size0, w.m_capacity[l] * (GROWTH_FACTOR - 1))
    IN
    IF capacity_required < w.m_capacity[l] THEN w
    ELSE
    Bind([w EXCEPT !.m_capacity[l] = Wrap(@ + bucket_size)], LAMBDA w1 :
    Bind(FreshBucket(w1), LAMBDA b :
    IF bucket_size > VECTOR_MAX THEN Fault(w1, "length_error")
    ELSE IF b = 0 THEN Fault(w1, "model_bound")
    ELSE
    Bind([NewBucket(w1, b, bucket_size) EXCEPT !.m_buckets[l] = Append(@, b)], LAMBDA w3 :
    fill_bucket_with_holes(w3, l, Len(w3.m_buckets[l]) - 1, 0))))

\* A variant that leaves the growth factor out for every caller.
resize_to_fit_without_growth(w, l, nb_new_elements, is_reserve) ==
    IF w.fault # "none" THEN w
    ELSE
    LET capacity_required == Wrap(w.m_size[l] + nb_new_elements)
        bucket_size == Max(MIN_BUCKET_SIZE, Wrap(capacity_required - w.m_capacity[l]))
    IN
    IF capacity_required <= w.m_capacity[l] THEN w
    ELSE
    Bind([w EXCEPT !.m_capacity[l] = Wrap(@ + bucket_size)], LAMBDA w1 :
    Bind(FreshBucket(w1), LAMBDA b :
    IF bucket_size > VECTOR_MAX THEN Fault(w1, "length_error")
    ELSE IF b = 0 THEN Fault(w1, "model_bound")
    ELSE
    Bind([NewBucket(w1, b, bucket_size) EXCEPT !.m_buckets[l] = Append(@, b)], LAMBDA w3 :
    fill_bucket_with_holes(w3, l, Len(w3.m_buckets[l]) - 1, 0))))

\* nb_new_elements arrives as the 64-bit pattern the caller computed.
resize_to_fit(w, l, nb_new_elements, is_reserve) ==
    IF w.fault # "none" THEN w
    ELSE
    LET capacity_required == Wrap(w.m_size[l] + nb_new_elements)
        \* The new bucket should be either the minimum size or enough to fit
        \* all the required elements, whichever is larger.
        size0 == Max(MIN_BUCKET_SIZE, Wrap(capacity_required - w.m_capacity[l]))
        \* Unless this is reserve(), we should also respect the growth factor.
        bucket_size ==
            IF is_reserve THEN size0
            ELSE Max(size0, w.m_capacity[l] * (GROWTH_FACTOR - 1))
    IN
    IF capacity_required <= w.m_capacity[l] THEN w
    ELSE
    \* Add the bucket.
    Bind([w EXCEPT !.m_capacity[l] = Wrap(@ + bucket_size)], LAMBDA w1 :
    Bind(FreshBucket(w1), LAMBDA b :
    IF bucket_size > VECTOR_MAX THEN Fault(w1, "length_error")
    ELSE IF b = 0 THEN Fault(w1, "model_bound")
    ELSE
    Bind([NewBucket(w1, b, bucket_size) EXCEPT !.m_buckets[l] = Append(@, b)], LAMBDA w3 :
    Bind(fill_bucket_with_holes(w3, l, Len(w3.m_buckets[l]) - 1, 0), LAMBDA w4 :
    IF w4.fault = "none" /\ w4.m_first_hole[l] = Null THEN Fault(w4, "assert") ELSE w4))))

\* -------------------------------------------------------- public functions
emplace(w, l, pos, v) ==
    \* If there are no more holes, add a new bucket to create new ones.
    Bind(IF w.m_first_hole[l] = Null THEN resize_to_fit(w, l, 1, FALSE) ELSE w,
         LAMBDA w1 :
    LET current == w1.m_first_hole[l]
    IN
    IF w1.fault # "none" THEN w1
    ELSE IF ~Valid(w1, current)
    THEN Fault(w1, IF current = Null THEN "null_deref" ELSE "bad_pointer")
    ELSE IF ~Valid(w1, pos) THEN Fault(w1, "bad_pointer")
    ELSE
    \* Fill the first hole. If it is the last one, set the last hole to nullptr.
    Bind([w1 EXCEPT !.m_first_hole[l] = w1.next[current],
                    !.m_last_hole[l] = IF w1.next[current] = Null THEN Null ELSE @,
                    \* Set the element.
                    !.elem[current] = Some(v),
                    !.m_size[l] = Wrap(@ + 1)],
         LAMBDA w2 :
    \* Link the element to pos.
    link_two_nodes(link_two_nodes(w2, current, pos), w2.prev[pos], current)))

\* A variant that erases the way an array does: the successor's value
\* moves into the erased node and the successor's node becomes the hole.
erase_by_shifting(w, l, it) ==
    IF w.fault # "none" THEN w
    ELSE IF ~(it # Null /\ Valid(w, it) /\ w.elem[it] # NullOpt) THEN Fault(w, "assert")
    ELSE
    LET nx == w.next[it]
        shift == Valid(w, nx) /\ w.elem[nx] # NullOpt
        gone == IF shift THEN nx ELSE it
    IN
    Bind([w EXCEPT !.elem[it] = IF shift THEN w.elem[nx] ELSE @], LAMBDA w0 :
    Bind([w0 EXCEPT !.m_size[l] = Wrap(@ - 1), !.elem[gone] = NullOpt], LAMBDA w1 :
    Bind(link_two_nodes(w1, w1.prev[gone], w1.next[gone]), LAMBDA w2 :
    Bind(link_two_nodes(w2, gone, w2.m_first_hole[l]), LAMBDA w3 :
    IF w3.fault # "none" THEN w3
    ELSE [w3 EXCEPT !.m_first_hole[l] = gone,
                    !.m_last_hole[l] = IF @ = Null THEN gone ELSE @]))))

\* A variant that counts the element out before it looks at the node.
erase_counting_first(w, l, it) ==
    IF w.fault # "none" THEN w
    ELSE IF ~(it # Null /\ Valid(w, it) /\ w.elem[it] # NullOpt)
    THEN Fault([w EXCEPT !.m_size[l] = Wrap(@ - 1)], "assert")
    ELSE
    Bind([w EXCEPT !.m_size[l] = Wrap(@ - 1), !.elem[it] = NullOpt], LAMBDA w1 :
    Bind(link_two_nodes(w1, w1.prev[it], w1.next[it]), LAMBDA w2 :
    Bind(link_two_nodes(w2, it, w2.m_first_hole[l]), LAMBDA w3 :
    IF w3.fault # "none" THEN w3
    ELSE [w3 EXCEPT !.m_first_hole[l] = it,
                    !.m_last_hole[l] = IF @ = Null THEN it ELSE @])))

erase(w, l, it) ==
    IF w.fault # "none" THEN w
    ELSE IF ~(it # Null /\ Valid(w, it) /\ w.elem[it] # NullOpt) THEN Fault(w, "assert")
    ELSE
    \* Erase the element.
    Bind([w EXCEPT !.m_size[l] = Wrap(@ - 1), !.elem[it] = NullOpt], LAMBDA w1 :
    \* Link the neighbors together.
    Bind(link_two_nodes(w1, w1.prev[it], w1.next[it]), LAMBDA w2 :
    Bind(link_two_nodes(w2, it, w2.m_first_hole[l]), LAMBDA w3 :
    IF w3.fault # "none" THEN w3
    ELSE \* Make the element the first hole.
         [w3 EXCEPT !.m_first_hole[l] = it,
                    !.m_last_hole[l] = IF @ = Null THEN it ELSE @])))

\* A variant that returns the iterator before the erased element.
erase_result_before(w, it) == w.prev[it]

\* The iterator erase() returns.
erase_result(w, it) == w.next[it]

RECURSIVE clear_loop(_, _, _)
clear_loop(w, l, bucket_index) ==
    IF w.fault # "none" \/ ~(bucket_index < Len(w.m_buckets[l])) THEN w
    ELSE clear_loop(fill_bucket_with_holes(w, l, bucket_index, 0), l, bucket_index + 1)

\* A variant that refills the first user bucket only.
clear_first_bucket_only(w, l) ==
    IF w.fault # "none" THEN w
    ELSE
    Bind(IF Len(w.m_buckets[l]) > 1
         THEN fill_bucket_with_holes([w EXCEPT !.m_first_hole[l] = Null], l, 1, 0)
         ELSE [w EXCEPT !.m_first_hole[l] = Null], LAMBDA w1 :
    IF w1.fault # "none" THEN w1
    ELSE IF ~HasSentinels(w1, l) THEN Fault(w1, "out_of_range")
    ELSE
    Bind(link_two_nodes(w1, RendNode(w1, l), End(w1, l)), LAMBDA w2 :
    IF w2.fault # "none" THEN w2
    ELSE [w2 EXCEPT
            !.m_last_hole[l] =
                IF Len(w2.m_buckets[l]) > 1
                THEN Back(w2, w2.m_buckets[l][Len(w2.m_buckets[l])]) ELSE @,
            !.m_size[l] = 0]))

clear(w, l) ==
    IF w.fault # "none" THEN w
    ELSE
    Bind(clear_loop([w EXCEPT !.m_first_hole[l] = Null], l, 1), LAMBDA w1 :
    IF w1.fault # "none" THEN w1
    ELSE IF ~HasSentinels(w1, l) THEN Fault(w1, "out_of_range")
    ELSE
    Bind(link_two_nodes(w1, RendNode(w1, l), End(w1, l)), LAMBDA w2 :
    IF w2.fault # "none" THEN w2
    ELSE [w2 EXCEPT
            !.m_last_hole[l] =
                IF Len(w2.m_buckets[l]) > 1
                THEN Back(w2, w2.m_buckets[l][Len(w2.m_buckets[l])]) ELSE @,
            !.m_size[l] = 0]))

\* vec_list() { m_buckets.emplace_back(2); clear(); } on zero-initialised members.
construct(w, l) ==
    Bind(FreshBucket(w), LAMBDA b :
    IF b = 0 THEN Fault(w, "model_bound")
    ELSE clear([NewBucket(w, b, 2) EXCEPT
                    !.m_buckets[l] = <<b>>,
                    !.m_first_hole[l] = Null,
                    !.m_last_hole[l] = Null,
                    !.m_size[l] = 0,
                    !.m_capacity[l] = 0], l))

\* operator=(vec_list&& other): the vectors this held are destroyed.
move_assign(w, l, o) ==
    IF w.fault # "none" THEN w
    ELSE
    LET w1 == FreeBuckets(w, {w.m_buckets[l][i] : i \in 1..Len(w.m_buckets[l])})
    IN [w1 EXCEPT !.m_buckets[l] = w.m_buckets[o],
                  !.m_buckets[o] = <<>>,
                  !.m_first_hole[l] = w.m_first_hole[o],
                  !.m_first_hole[o] = Null,
                  !.m_last_hole[l] = w.m_last_hole[o],
                  !.m_last_hole[o] = Null,
                  !.m_size[l] = w.m_size[o],
                  !.m_size[o] = 0,
                  !.m_capacity[l] = w.m_capacity[o],
                  !.m_capacity[o] = 0]

\* A variant that makes the capacity the requested one, also downwards.
reserve_to(w, l, new_capacity) ==
    Bind(resize_to_fit(w, l, Wrap(new_capacity - w.m_capacity[l]), TRUE), LAMBDA w1 :
    IF w1.fault # "none" THEN w1 ELSE [w1 EXCEPT !.m_capacity[l] = new_capacity])

\* reserve(new_capacity): the difference is computed in size_t.
reserve(w, l, new_capacity) ==
    resize_to_fit(w, l, Wrap(new_capacity - w.m_capacity[l]), TRUE)

RECURSIVE emplace_times(_, _, _, _, _)
emplace_times(w, l, pos, count, v) ==
    IF count = 0 \/ w.fault # "none" THEN w
    ELSE emplace_times(emplace(w, l, pos, v), l, pos, count - 1, v)

\* A variant that makes no room beforehand and lets each emplace grow the
\* list when it finds no hole.
insert_count_growing_as_needed(w, l, pos, count, v) ==
    emplace_times(w, l, pos, count, v)

\* insert(pos, count, value)
insert_count(w, l, pos, count, v) ==
    emplace_times(resize_to_fit(w, l, count, FALSE), l, pos, count, v)

\* while (first != last) insert(pos, *(first++)); first and last are
\* iterators into a vec_list, as in splice() and operator=(const vec_list&).
RECURSIVE insert_loop(_, _, _, _, _, _)
insert_loop(w, l, pos, first, lst, fuel) ==
    IF w.fault # "none" \/ first = lst THEN w
    ELSE IF fuel = 0 THEN Fault(w, "hang")
    ELSE IF ~Valid(w, first) THEN Fault(w, IF first = Null THEN "null_deref" ELSE "bad_pointer")
    ELSE IF w.elem[first] = NullOpt THEN Fault(w, "empty_optional")
    ELSE insert_loop(emplace(w, l, pos, w.elem[first][1]), l, pos, w.next[first], lst, fuel - 1)

\* insert(pos, first, last): std::distance walks the range first.
insert_range(w, l, pos, first, lst) ==
    IF w.fault # "none" THEN w
    ELSE IF ReachNext(w, first, lst, Fuel(w)) # lst THEN Fault(w, "hang")
    ELSE insert_loop(resize_to_fit(w, l, Len(FollowNext(w, first, lst, Fuel(w))), FALSE),
                     l, pos, first, lst, MaxElems + 1)

\* pop_back(): erase(std::prev(end()))
pop_back(w, l) ==
    IF w.fault # "none" THEN w
    ELSE IF ~HasSentinels(w, l) THEN Fault(w, "out_of_range")
    ELSE erase(w, l, w.prev[End(w, l)])

\* pop_front(): erase(begin())
pop_front(w, l) ==
    IF w.fault # "none" THEN w
    ELSE IF ~HasSentinels(w, l) THEN Fault(w, "out_of_range")
    ELSE erase(w, l, Begin(w, l))

RECURSIVE pop_while(_, _, _)
pop_while(w, l, new_size) ==
    IF w.fault # "none" \/ ~(w.m_size[l] > new_size) THEN w
    ELSE pop_while(pop_back(w, l), l, new_size)

RECURSIVE emplace_back_while(_, _, _)
emplace_back_while(w, l, new_size) ==
    IF w.fault # "none" \/ ~(w.m_size[l] < new_size) THEN w
    ELSE IF ~HasSentinels(w, l) THEN Fault(w, "out_of_range")
    ELSE emplace_back_while(emplace(w, l, End(w, l), DefaultValue), l, new_size)

\* resize(new_size)
resize(w, l, new_size) ==
    Bind(pop_while(w, l, new_size), LAMBDA w1 :
    emplace_back_while(resize_to_fit(w1, l, Wrap(new_size - w1.m_size[l]), FALSE),
                       l, new_size))

\* operator=(const vec_list& other)
copy_assign(w, l, o) ==
    Bind(clear(w, l), LAMBDA w1 :
    IF w1.fault # "none" THEN w1
    ELSE IF ~HasSentinels(w1, o) THEN Fault(w1, "out_of_range")
    ELSE insert_range(w1, l, Begin(w1, l), Begin(w1, o), End(w1, o)))

\* The loop of reverse(): std::swap(current->prev, current->next), then
\* current = current->prev.
RECURSIVE reverse_loop(_, _, _, _)
reverse_loop(w, current, lst, fuel) ==
    IF w.fault # "none" \/ current = lst THEN w
    ELSE IF fuel = 0 THEN Fault(w, "hang")
    ELSE IF ~Valid(w, current) THEN Fault(w, IF current = Null THEN "null_deref" ELSE "bad_pointer")
    ELSE reverse_loop([w EXCEPT !.prev[current] = w.next[current],
                                !.next[current] = w.prev[current]],
                      w.next[current], lst, fuel - 1)

\* A variant that does not tell holes from elements: it exchanges prev and
\* next in every node of the user buckets before it fixes the ends.
reverse_every_node(w, l) ==
    IF w.fault # "none" THEN w
    ELSE IF ~HasSentinels(w, l) THEN Fault(w, "out_of_range")
    ELSE IF ~Valid(w, Begin(w, l)) THEN Fault(w, "null_deref")
    ELSE
    LET first == w.prev[Begin(w, l)]
        lst == End(w, l)
        user == UNION {NodesOf(w.m_buckets[l][i], w.bsize[w.m_buckets[l][i]]) :
                            i \in 2..Len(w.m_buckets[l])}
    IN
    IF ~Valid(w, first) THEN Fault(w, "null_deref")
    ELSE
    Bind([w EXCEPT !.prev = [x \in DOMAIN @ |-> IF x \in user THEN w.next[x] ELSE @[x]],
                   !.next = [x \in DOMAIN @ |-> IF x \in user THEN w.prev[x] ELSE @[x]]],
         LAMBDA w1 :
    Bind([w1 EXCEPT !.next[first] = w1.prev[lst], !.prev[lst] = w1.next[first]],
         LAMBDA w3 :
    Bind(SetPrev(w3, w3.next[first], first), LAMBDA w4 :
    IF w4.fault # "none" THEN w4 ELSE SetNext(w4, w4.prev[lst], lst))))

reverse(w, l) ==
    IF w.fault # "none" THEN w
    ELSE IF ~HasSentinels(w, l) THEN Fault(w, "out_of_range")
    ELSE IF ~Valid(w, Begin(w, l)) THEN Fault(w, "null_deref")
    ELSE
    LET first == w.prev[Begin(w, l)]
        lst == End(w, l)
    IN
    IF ~Valid(w, first) THEN Fault(w, "null_deref")
    ELSE
    Bind(reverse_loop(w, w.next[first], lst, Fuel(w)), LAMBDA w1 :
    IF w1.fault # "none" THEN w1
    ELSE
    \* std::swap(first->next, last->prev)
    Bind([w1 EXCEPT !.next[first] = w1.prev[lst], !.prev[lst] = w1.next[first]],
         LAMBDA w3 :
    \* first->next->prev = first
    Bind(SetPrev(w3, w3.next[first], first), LAMBDA w4 :
    \* last->prev->next = last
    IF w4.fault # "none" THEN w4 ELSE SetNext(w4, w4.prev[lst], lst))))

\* splice(pos, other)
splice(w, l, pos, o) ==
    IF w.fault # "none" THEN w
    ELSE IF l = o THEN Fault(w, "assert")
    ELSE IF w.m_size[o] = 0 THEN w
    ELSE IF ~HasSentinels(w, o) \/ ~HasSentinels(w, l) THEN Fault(w, "out_of_range")
    ELSE
    \* Insert other's buckets into this.
    Bind([w EXCEPT !.m_buckets[l] = @ \o Tail(w.m_buckets[o]),
                   !.m_buckets[o] = <<w.m_buckets[o][1]>>,
                   !.m_size[l] = Wrap(@ + w.m_size[o]),
                   !.m_capacity[l] = Wrap(@ + w.m_capacity[o])],
         LAMBDA w1 :
    \* Link the holes.
    Bind(link_two_nodes(w1, w1.m_last_hole[l], w1.m_first_hole[o]), LAMBDA w2 :
    Bind([w2 EXCEPT !.m_last_hole[l] = w2.m_last_hole[o]], LAMBDA w3 :
    IF w3.fault # "none" THEN w3
    ELSE IF ~Valid(w3, pos) THEN Fault(w3, "bad_pointer")
    ELSE
    \* Link the elements to pos.
    Bind(link_two_nodes(w3, w3.prev[End(w3, o)], pos), LAMBDA w4 :
    Bind(link_two_nodes(w4, w3.prev[pos], Begin(w4, o)), LAMBDA w5 :
    \* Hard reset other.
    move_assign(construct(w5, Temp), o, Temp))))))

\* splice(pos, other, it)
splice_one(w, l, pos, o, it) ==
    IF w.fault # "none" THEN w
    ELSE IF ~Valid(w, it) THEN Fault(w, "bad_pointer")
    ELSE IF w.elem[it] = NullOpt THEN Fault(w, "empty_optional")
    ELSE erase(emplace(w, l, pos, w.elem[it][1]), o, it)

\* erase(first, last)
RECURSIVE erase_range(_, _, _, _, _)
erase_range(w, l, first, lst, fuel) ==
    IF w.fault # "none" \/ first = lst THEN w
    ELSE IF fuel = 0 THEN Fault(w, "hang")
    ELSE IF ~Valid(w, first) THEN Fault(w, "assert")
    ELSE erase_range(erase(w, l, first), l, erase_result(w, first), lst, fuel - 1)

\* The iterator erase(first, last) returns: first, when the loop ends.
RECURSIVE erase_range_result(_, _, _, _, _)
erase_range_result(w, l, first, lst, fuel) ==
    IF w.fault # "none" \/ first = lst \/ fuel = 0 \/ ~Valid(w, first) THEN first
    ELSE erase_range_result(erase(w, l, first), l, erase_result(w, first), lst, fuel - 1)

\* A variant without the whole-list case: it always inserts copies and
\* erases the originals.
splice_range_by_copy(w, l, pos, o, first, lst) ==
    IF w.fault # "none" THEN w
    ELSE IF ~HasSentinels(w, o) THEN Fault(w, "out_of_range")
    ELSE erase_range(insert_range(w, l, pos, first, lst), o, first, lst, MaxElems + 1)

\* splice(pos, other, first, last)
splice_range(w, l, pos, o, first, lst) ==
    IF w.fault # "none" THEN w
    ELSE IF ~HasSentinels(w, o) THEN Fault(w, "out_of_range")
    ELSE IF first = Begin(w, o) /\ lst = End(w, o) THEN splice(w, l, pos, o)
    ELSE erase_range(insert_range(w, l, pos, first, lst), o, first, lst, MaxElems + 1)

\* ------------------------------------------------------------- optimize
SizeOf(w, b) == IF b = Moved THEN 0 ELSE w.bsize[b]

\* The orders std::sort may leave the buckets 1.. in: any arrangement of
\* them with the sizes descending (std::sort is not stable).
SortedOrders(w, l) ==
    LET bs == Tail(w.m_buckets[l])
        n == Len(bs)
    IN {s \in [1..n -> SeqToSet(bs)] :
            /\ \A i, j \in 1..n : i # j => s[i] # s[j]
            /\ \A i \in 1..n : i < n => w.bsize[s[i]] >= w.bsize[s[i + 1]]}

\* A variant that looks at the bucket at hand only and not at the next one.
RECURSIVE select_loop_without_lookahead(_, _, _, _, _, _)
select_loop_without_lookahead(w, bk, dst, dst_capacity, i, size) ==
    IF ~(i < Len(bk) /\ dst_capacity < size)
    THEN [m_buckets |-> bk, dst_buckets |-> dst, dst_capacity |-> dst_capacity]
    ELSE
    LET capacity_if_we_include_bucket == dst_capacity + SizeOf(w, bk[i + 1])
    IN
    IF capacity_if_we_include_bucket <= size \/ i + 1 = Len(bk)
    THEN select_loop_without_lookahead(w, [bk EXCEPT ![i + 1] = Moved],
                Append(dst, bk[i + 1]), capacity_if_we_include_bucket, i + 1, size)
    ELSE select_loop_without_lookahead(w, bk, dst, dst_capacity, i + 1, size)

\* Find the destination buckets: the loop over i, with m_buckets (bk),
\* dst_buckets (dst) and dst_capacity as its state.
RECURSIVE select_loop(_, _, _, _, _, _)
select_loop(w, bk, dst, dst_capacity, i, size) ==
    IF ~(i < Len(bk) /\ dst_capacity < size)
    THEN [m_buckets |-> bk, dst_buckets |-> dst, dst_capacity |-> dst_capacity]
    ELSE
    LET capacity_if_we_include_bucket == dst_capacity + SizeOf(w, bk[i + 1])
        take_bucket ==
            \/ capacity_if_we_include_bucket <= size
            \/ i + 1 = Len(bk)
            \/ dst_capacity + SizeOf(w, bk[i + 2]) < size
    IN
    IF take_bucket
    THEN select_loop(w, [bk EXCEPT ![i + 1] = Moved], Append(dst, bk[i + 1]),
                     capacity_if_we_include_bucket, i + 1, size)
    ELSE select_loop(w, bk, dst, dst_capacity, i + 1, size)

Deref(w, p) == IF Valid(w, p) THEN w ELSE Fault(w, IF p = Null THEN "null_deref" ELSE "bad_pointer")

\* One iteration of "Copy over the elements": std::swap(*src_node, *dst_node)
\* and the four pointer updates.
swap_step(w, src_node, dst_node) ==
    Bind([w EXCEPT !.next[src_node] = w.next[dst_node],
                   !.next[dst_node] = w.next[src_node],
                   !.prev[src_node] = w.prev[dst_node],
                   !.prev[dst_node] = w.prev[src_node],
                   !.elem[src_node] = w.elem[dst_node],
                   !.elem[dst_node] = w.elem[src_node]],
         LAMBDA w1 :
    Bind(SetNext(w1, w1.prev[dst_node], dst_node), LAMBDA w2 :
    Bind(IF w2.fault # "none" THEN w2 ELSE SetPrev(w2, w2.next[dst_node], dst_node),
         LAMBDA w3 :
    IF w3.fault # "none" \/ w3.elem[src_node] = NullOpt THEN w3
    ELSE \* We dont care about holes.
         Bind(SetNext(w3, w3.prev[src_node], src_node), LAMBDA w4 :
         IF w4.fault # "none" THEN w4 ELSE SetPrev(w4, w4.next[src_node], src_node)))))

\* The loop itself; its result carries dst_elem_index.
RECURSIVE copy_loop(_, _, _, _, _, _)
copy_loop(w, dst, src_node, lst, dst_bucket_index, dst_elem_index) ==
    IF w.fault # "none" \/ src_node = lst
    THEN [w |-> w, dst_elem_index |-> dst_elem_index]
    ELSE IF ~(dst_bucket_index < Len(dst))
    THEN [w |-> Fault(w, "out_of_range"), dst_elem_index |-> dst_elem_index]
    ELSE IF ~Valid(w, src_node)
    THEN [w |-> Deref(w, src_node), dst_elem_index |-> dst_elem_index]
    ELSE
    LET dst_node == <<dst[dst_bucket_index + 1], dst_elem_index>>
        wrapped == dst_elem_index + 1 = w.bsize[dst[dst_bucket_index + 1]]
    IN
    Bind(swap_step(w, src_node, dst_node), LAMBDA w1 :
    copy_loop(w1, dst, w1.next[dst_node], lst,
              IF wrapped THEN dst_bucket_index + 1 ELSE dst_bucket_index,
              IF wrapped THEN 0 ELSE dst_elem_index + 1))

\* The states at the end of each iteration of that loop, in order; the
\* last one is faulted where the loop does not get through an iteration,
\* and the trace stops after fuel iterations.
RECURSIVE copy_trace(_, _, _, _, _, _, _)
copy_trace(w, dst, src_node, lst, dst_bucket_index, dst_elem_index, fuel) ==
    IF w.fault # "none" \/ src_node = lst \/ fuel = 0 THEN <<>>
    ELSE IF ~(dst_bucket_index < Len(dst)) THEN <<Fault(w, "out_of_range")>>
    ELSE IF ~Valid(w, src_node) THEN <<Deref(w, src_node)>>
    ELSE
    LET dst_node == <<dst[dst_bucket_index + 1], dst_elem_index>>
        wrapped == dst_elem_index + 1 = w.bsize[dst[dst_bucket_index + 1]]
    IN
    Bind(swap_step(w, src_node, dst_node), LAMBDA w1 :
    <<w1>> \o copy_trace(w1, dst, w1.next[dst_node], lst,
                         IF wrapped THEN dst_bucket_index + 1 ELSE dst_bucket_index,
                         IF wrapped THEN 0 ELSE dst_elem_index + 1, fuel - 1))

\* The iterations of the loop inside optimize(), which runs where the list
\* is not empty: after the buckets are sorted and the destinations chosen.
optimize_trace(w, l, order, fuel) ==
    IF w.fault # "none" \/ w.m_size[l] = 0 \/ ~HasSentinels(w, l) THEN <<>>
    ELSE
    Bind(select_loop(w, <<w.m_buckets[l][1]>> \o order, <<>>, 0, 1, w.m_size[l]),
         LAMBDA sel :
    Bind([w EXCEPT !.m_buckets[l] = sel.m_buckets], LAMBDA w1 :
    IF ~(sel.dst_capacity >= w.m_size[l]) THEN <<>>
    ELSE copy_trace(w1, sel.dst_buckets, Begin(w1, l), End(w1, l), 0, 0, fuel)))

\* for (size_t i = m_buckets.size() - 1; i > 0; i--) fill_bucket_with_holes(i, 0);
RECURSIVE refill_loop(_, _, _)
refill_loop(w, l, i) ==
    IF w.fault # "none" \/ ~(i > 0) THEN w
    ELSE refill_loop(fill_bucket_with_holes(w, l, i, 0), l, i - 1)

\* m_buckets.resize(1)
resize_buckets_to_one(w, l) ==
    IF Len(w.m_buckets[l]) = 0 THEN [w EXCEPT !.m_buckets[l] = <<Moved>>]
    ELSE [FreeBuckets(w, SeqToSet(Tail(w.m_buckets[l])) \ {Moved})
            EXCEPT !.m_buckets[l] = <<w.m_buckets[l][1]>>]

\* optimize(shrink_to_fit); order is what std::sort made of the buckets.
optimize(w, l, shrink_to_fit, order) ==
    IF w.fault # "none" THEN w
    ELSE IF w.m_size[l] = 0
    THEN clear(IF shrink_to_fit
               THEN [resize_buckets_to_one(w, l) EXCEPT !.m_capacity[l] = 0]
               ELSE w, l)    \* Clear organizes the holes.
    ELSE IF ~HasSentinels(w, l) THEN Fault(w, "out_of_range")
    ELSE
    Bind(select_loop(w, <<w.m_buckets[l][1]>> \o order, <<>>, 0, 1, w.m_size[l]),
         LAMBDA sel :
    Bind([w EXCEPT !.m_buckets[l] = sel.m_buckets], LAMBDA w1 :
    IF ~(sel.dst_capacity >= w.m_size[l]) THEN Fault(w1, "assert")
    ELSE
    \* Copy over the elements.
    Bind(copy_loop(w1, sel.dst_buckets, Begin(w1, l), End(w1, l), 0, 0), LAMBDA r :
    IF r.w.fault # "none" THEN r.w
    ELSE
    \* Deal with unused buckets.
    Bind([r.w EXCEPT !.m_first_hole[l] = Null, !.m_last_hole[l] = Null], LAMBDA w2 :
    Bind(IF shrink_to_fit
         THEN [resize_buckets_to_one(w2, l) EXCEPT !.m_capacity[l] = sel.dst_capacity]
         ELSE Bind([w2 EXCEPT !.m_buckets[l] = SelectSeq(@, LAMBDA b : b # Moved)],
                   LAMBDA w2a : refill_loop(w2a, l, Len(w2a.m_buckets[l]) - 1)),
         LAMBDA w3 :
    IF w3.fault # "none" THEN w3
    ELSE
    \* Append the dst buckets and fill the remaining portion of the last
    \* bucket with holes.
    Bind([w3 EXCEPT !.m_buckets[l] = @ \o sel.dst_buckets], LAMBDA w4 :
    IF r.dst_elem_index > 0
    THEN fill_bucket_with_holes(w4, l, Len(w4.m_buckets[l]) - 1, r.dst_elem_index)
    ELSE w4))))))

\* ------------------------------------------------------------ comparisons
\* The results of a comparison: a bool, a std::strong_ordering, or the call
\* did not return (an iterator stepped or read where there is no node, no
\* successor or no payload).
\* std::equal(first1, last1, first2, last2) on bidirectional iterators.
RECURSIVE std_equal(_, _, _, _, _, _)
std_equal(w, first1, last1, first2, last2, fuel) ==
    IF first1 = last1 \/ first2 = last2
    THEN (IF first1 = last1 /\ first2 = last2 THEN "true" ELSE "false")
    ELSE IF fuel = 0 \/ ~Valid(w, first1) \/ ~Valid(w, first2) THEN "fault"
    ELSE IF w.elem[first1] = NullOpt \/ w.elem[first2] = NullOpt THEN "fault"
    ELSE IF w.elem[first1] # w.elem[first2] THEN "false"
    ELSE IF w.next[first1] = Null \/ w.next[first2] = Null THEN "fault"
    ELSE std_equal(w, w.next[first1], last1, w.next[first2], last2, fuel - 1)

\* std::lexicographical_compare_three_way(first1, last1, first2, last2)
RECURSIVE lexicographical_compare_three_way(_, _, _, _, _, _)
lexicographical_compare_three_way(w, first1, last1, first2, last2, fuel) ==
    IF first1 = last1 THEN (IF first2 = last2 THEN "equal" ELSE "less")
    ELSE IF first2 = last2 THEN "greater"
    ELSE IF fuel = 0 \/ ~Valid(w, first1) \/ ~Valid(w, first2) THEN "fault"
    ELSE IF w.elem[first1] = NullOpt \/ w.elem[first2] = NullOpt THEN "fault"
    ELSE IF w.elem[first1][1] < w.elem[first2][1] THEN "less"
    ELSE IF w.elem[first1][1] > w.elem[first2][1] THEN "greater"
    ELSE IF w.next[first1] = Null \/ w.next[first2] = Null THEN "fault"
    ELSE lexicographical_compare_three_way(w, w.next[first1], last1,
                                           w.next[first2], last2, fuel - 1)

\* A variant that compares the sizes only.
operator_eq_by_size(w, a, b) ==
    IF w.m_size[a] # w.m_size[b] THEN "false" ELSE "true"

\* operator==(a, b)
operator_eq(w, a, b) ==
    IF w.m_size[a] # w.m_size[b] THEN "false"
    ELSE IF ~HasSentinels(w, a) \/ ~HasSentinels(w, b) THEN "fault"
    ELSE std_equal(w, Begin(w, a), End(w, a), Begin(w, b), End(w, b), Fuel(w))

\* operator<=>(a, b)
operator_cmp(w, a, b) ==
    IF ~HasSentinels(w, a) \/ ~HasSentinels(w, b) THEN "fault"
    ELSE lexicographical_compare_three_way(w, Begin(w, a), End(w, a),
                                           Begin(w, b), End(w, b), Fuel(w))

\* ---------------------------------------------------------- addresses
\* An address has no meaning beyond which node it designates, so the model
\* keeps a state up to renaming of the buckets: after every call the buckets
\* are numbered in the order the lists hold them, and the pointers, and the
\* iterators the caller holds, are renamed with them.  A pointer into a
\* vector that has been destroyed becomes Dangling.
Dangling == <<0, 1>>

BucketOrder(w) == w.m_buckets[1] \o w.m_buckets[2]
Renamable(w) ==
    /\ w.fault = "none"
    /\ SeqToSet(BucketOrder(w)) = DOMAIN w.bsize
    /\ Len(BucketOrder(w)) = Cardinality(DOMAIN w.bsize)
NewId(w, b) == CHOOSE i \in 1..Len(BucketOrder(w)) : BucketOrder(w)[i] = b
RenameNode(w, p) ==
    IF p = Null THEN Null
    ELSE IF p \in DOMAIN w.next THEN <<NewId(w, p[1]), p[2]>>
    ELSE Dangling
OldNode(w, x) == <<BucketOrder(w)[x[1]], x[2]>>
RenameSeq(w, s) == [i \in 1..Len(s) |-> RenameNode(w, s[i])]

Rename(w) ==
    IF ~Renamable(w) THEN w
    ELSE
    LET ord == BucketOrder(w)
        nodes == UNION {NodesOf(i, w.bsize[ord[i]]) : i \in 1..Len(ord)}
    IN [next |-> [x \in nodes |-> RenameNode(w, w.next[OldNode(w, x)])],
        prev |-> [x \in nodes |-> RenameNode(w, w.prev[OldNode(w, x)])],
        elem |-> [x \in nodes |-> w.elem[OldNode(w, x)]],
        bsize |-> [i \in 1..Len(ord) |-> w.bsize[ord[i]]],
        m_buckets |-> [l \in Objects |->
                        [i \in 1..Len(w.m_buckets[l]) |-> NewId(w, w.m_buckets[l][i])]],
        m_first_hole |-> [l \in Objects |-> RenameNode(w, w.m_first_hole[l])],
        m_last_hole |-> [l \in Objects |-> RenameNode(w, w.m_last_hole[l])],
        m_size |-> w.m_size,
        m_capacity |-> w.m_capacity,
        fault |-> w.fault]
RenameIters(w, its) ==
    IF ~Renamable(w) THEN its ELSE [l \in Lists |-> RenameSeq(w, its[l])]

\* The state and the caller's iterators after a call.
Return(w, its) ==
    \E r \in {Rename(w)} : Commit(r) /\ iters' = RenameIters(w, its)

\* ------------------------------------------------- the caller's side
InsertAt(s, k, x) == SubSeq(s, 1, k - 1) \o <<x>> \o SubSeq(s, k, Len(s))
RemoveAt(s, k) == SubSeq(s, 1, k - 1) \o SubSeq(s, k + 1, Len(s))

\* The iterator the caller holds for position k: k = size()+1 means end().
IterAt(w, l, k) == IF k = Len(iters[l]) + 1 THEN End(w, l) ELSE iters[l][k]

TotalSlots(w) ==
    LET RECURSIVE Sum(_)
        Sum(S) == IF S = {} THEN 0
                  ELSE LET b == CHOOSE x \in S : TRUE IN w.bsize[b] + Sum(S \ {b})
    IN Sum(DOMAIN w.bsize)

\* The part of the program the model explores.
Within(w, slots) ==
    /\ w.fault # "model_bound"
    /\ TotalSlots(w) <= slots + 2 * Cardinality(Lists)
Bounded(w) == Within(w, MaxSlots)

\* The list is still the list its caller takes it for: a traversal ends at
\* end(), visits the nodes of the iterators the caller holds, in order, and
\* finds the values of the reference list.  The caller has no valid argument
\* to pass once this fails, so the model follows an object no further.
Coherent(l) ==
    /\ ForwardComplete(W, l)
    /\ ForwardNodes(W, l) = iters[l]
    /\ ValuesAt(W, iters[l]) = Payloads(ref[l])
    /\ m_size[l] = Len(ref[l])

\* The number of elements of both lists.
Elems == m_size[1] + m_size[2]

EmptyHeap ==
    [next |-> <<>>, prev |-> <<>>, elem |-> <<>>, bsize |-> <<>>,
     m_buckets |-> [l \in Objects |-> <<>>],
     m_first_hole |-> [l \in Objects |-> Null],
     m_last_hole |-> [l \in Objects |-> Null],
     m_size |-> [l \in Objects |-> 0],
     m_capacity |-> [l \in Objects |-> 0],
     fault |-> "none"]

\* palla::vec_list<T> a, b;
Init ==
    /\ Commit0(construct(construct(EmptyHeap, 1), 2))
    /\ ref = [l \in Lists |-> <<>>]
    /\ iters = [l \in Lists |-> <<>>]
    /\ last = "vec_list"

Running == fault = "none"

\* The iterator a traversal of l finds at position i.
WalkAt(w, l, i) ==
    IF i <= Len(ForwardNodes(w, l)) THEN ForwardNodes(w, l)[i] ELSE Null
WalkRange(w, l, from, count) == [i \in 1..count |-> WalkAt(w, l, from + i - 1)]
Repeat(x, count) == [i \in 1..count |-> x]
InsertSeq(s, k, t) == SubSeq(s, 1, k - 1) \o t \o SubSeq(s, k, Len(s))
Without(s, i, j) == SubSeq(s, 1, i - 1) \o SubSeq(s, j, Len(s))
Positions(l) == 1..(Len(iters[l]) + 1)

\* The iterator emplace() returns: the first hole, after growth if any.
emplace_result(w, l) ==
    IF w.m_first_hole[l] = Null
    THEN resize_to_fit(w, l, 1, FALSE).m_first_hole[l]
    ELSE w.m_first_hole[l]

\* emplace(pos, v), insert(pos, v); push_front(v) is k = 1, push_back(v) is
\* k = size() + 1.
EmplaceBounded(l, k, v, slots, elems) ==
    /\ Running /\ Coherent(l)
    /\ Elems < elems
    /\ \E w \in {emplace(W, l, IterAt(W, l, k), v)} :
          /\ Within(w, slots)
          /\ Return(w, [iters EXCEPT ![l] = InsertAt(@, k, emplace_result(W, l))])
    /\ ref' = [ref EXCEPT ![l] = InsertAt(@, k, v)]
    /\ last' = "emplace"

EmplaceWithin(l, k, v, slots) == EmplaceBounded(l, k, v, slots, MaxElems)

Emplace(l, k, v) == EmplaceWithin(l, k, v, MaxSlots)

\* erase(pos); pop_front() is k = 1, pop_back() is k = size().
Erase(l, k) ==
    /\ Running /\ Coherent(l)
    /\ k \in 1..Len(iters[l])
    /\ \E w \in {erase(W, l, iters[l][k])} :
          Return(w, [iters EXCEPT ![l] = RemoveAt(@, k)])
    /\ ref' = [ref EXCEPT ![l] = RemoveAt(@, k)]
    /\ last' = "erase"

\* The nodes of the buckets of l, sentinels included.
NodesOfList(w, l) ==
    UNION {NodesOf(b, w.bsize[b]) : b \in SeqToSet(w.m_buckets[l]) \cap DOMAIN w.bsize}

\* erase(pos) where pos holds no payload: end(), the other sentinel, a hole,
\* or a default-constructed iterator.
EraseNoPayload(l, pos) ==
    /\ Running /\ Coherent(l)
    /\ pos \in {Null} \cup {n \in NodesOfList(W, l) : elem[n] = NullOpt}
    /\ \E w \in {erase(W, l, pos)} : Return(w, iters)
    /\ UNCHANGED ref
    /\ last' = "erase_no_payload"

\* pop_front() or pop_back() on an empty list.
PopEmpty(l, back) ==
    /\ Running /\ Coherent(l)
    /\ m_size[l] = 0
    /\ \E w \in {IF back THEN pop_back(W, l) ELSE pop_front(W, l)} : Return(w, iters)
    /\ UNCHANGED ref
    /\ last' = "pop_empty"

Clear(l) ==
    /\ Running /\ Coherent(l)
    /\ \E w \in {clear(W, l)} : Return(w, [iters EXCEPT ![l] = <<>>])
    /\ ref' = [ref EXCEPT ![l] = <<>>]
    /\ last' = "clear"

ReserveWithin(l, n, slots) ==
    /\ Running /\ Coherent(l)
    /\ \E w \in {reserve(W, l, n)} : Within(w, slots) /\ Return(w, iters)
    /\ UNCHANGED ref
    /\ last' = "reserve"

Reserve(l, n) == ReserveWithin(l, n, MaxSlots)

Resize(l, n) ==
    /\ Running /\ Coherent(l)
    /\ Elems - m_size[l] + n <= MaxElems
    /\ \E w \in {resize(W, l, n)}, len \in {Len(ref[l])} :
          /\ Bounded(w)
          /\ Return(w, [iters EXCEPT ![l] =
                          IF n <= len THEN SubSeq(@, 1, n)
                          ELSE @ \o WalkRange(w, l, len + 1, n - len)])
          /\ ref' = [ref EXCEPT ![l] =
                        IF n <= len THEN SubSeq(@, 1, n)
                        ELSE @ \o Repeat(DefaultValue, n - len)]
    /\ last' = "resize"

InsertCount(l, k, count, v) ==
    /\ Running /\ Coherent(l)
    /\ Elems + count <= MaxElems
    /\ \E w \in {insert_count(W, l, IterAt(W, l, k), count, v)} :
          /\ Bounded(w)
          /\ Return(w, [iters EXCEPT ![l] = InsertSeq(@, k, WalkRange(w, l, k, count))])
    /\ ref' = [ref EXCEPT ![l] = InsertSeq(@, k, Repeat(v, count))]
    /\ last' = "insert_count"

\* insert(pos, first, last) with [first, last) the range [i, j) of o, by
\* position; j = size() + 1 is o.end().
InsertRange(l, k, o, i, j) ==
    /\ Running /\ Coherent(l) /\ Coherent(o)
    /\ l # o
    /\ i <= j
    /\ Elems + (j - i) <= MaxElems
    /\ \E w \in {insert_range(W, l, IterAt(W, l, k), IterAt(W, o, i), IterAt(W, o, j))} :
          /\ Bounded(w)
          /\ Return(w, [iters EXCEPT ![l] = InsertSeq(@, k, WalkRange(w, l, k, j - i))])
    /\ ref' = [ref EXCEPT ![l] = InsertSeq(@, k, SubSeq(ref[o], i, j - 1))]
    /\ last' = "insert_range"

ReverseList(l) ==
    /\ Running /\ Coherent(l)
    /\ \E w \in {reverse(W, l)} : Return(w, [iters EXCEPT ![l] = Reverse(@)])
    /\ ref' = [ref EXCEPT ![l] = Reverse(@)]
    /\ last' = "reverse"

SpliceAllWithin(l, k, o, slots) ==
    /\ Running /\ Coherent(l) /\ Coherent(o)
    /\ l # o
    /\ \E w \in {splice(W, l, IterAt(W, l, k), o)} :
          /\ Within(w, slots)
          /\ Return(w, [iters EXCEPT ![l] = InsertSeq(@, k, iters[o]), ![o] = <<>>])
    /\ ref' = [ref EXCEPT ![l] = InsertSeq(@, k, ref[o]), ![o] = <<>>]
    /\ last' = "splice"

SpliceAll(l, k, o) == SpliceAllWithin(l, k, o, MaxSlots)

SpliceOne(l, k, o, j) ==
    /\ Running /\ Coherent(l) /\ Coherent(o)
    /\ l # o
    /\ j \in 1..Len(iters[o])
    /\ \E w \in {splice_one(W, l, IterAt(W, l, k), o, iters[o][j])} :
          /\ Bounded(w)
          /\ Return(w, [iters EXCEPT ![l] = InsertAt(@, k, WalkAt(w, l, k)),
                                     ![o] = RemoveAt(@, j)])
    /\ ref' = [ref EXCEPT ![l] = InsertAt(@, k, ref[o][j]), ![o] = RemoveAt(@, j)]
    /\ last' = "splice_one"

\* The range is [i, j) of other, by position; j = size() + 1 is other.end().
SpliceRange(l, k, o, i, j) ==
    /\ Running /\ Coherent(l) /\ Coherent(o)
    /\ l # o
    /\ i <= j
    /\ \E w \in {splice_range(W, l, IterAt(W, l, k), o, IterAt(W, o, i), IterAt(W, o, j))},
             whole \in {i = 1 /\ j = Len(iters[o]) + 1} :
          /\ Bounded(w)
          /\ Return(w, [iters EXCEPT
                ![l] = InsertSeq(@, k, IF whole THEN iters[o] ELSE WalkRange(w, l, k, j - i)),
                ![o] = Without(@, i, j)])
    /\ ref' = [ref EXCEPT ![l] = InsertSeq(@, k, SubSeq(ref[o], i, j - 1)),
                           ![o] = Without(@, i, j)]
    /\ last' = "splice_range"

\* s with its elements [i, j) moved before what was its element k, where k
\* is not inside [i, j).
MoveRange(s, i, j, k) ==
    IF k <= i
    THEN SubSeq(s, 1, k - 1) \o SubSeq(s, i, j - 1) \o SubSeq(s, k, i - 1)
            \o SubSeq(s, j, Len(s))
    ELSE SubSeq(s, 1, i - 1) \o SubSeq(s, j, k - 1) \o SubSeq(s, i, j - 1)
            \o SubSeq(s, k, Len(s))

\* l.splice(pos, l, it): other is the list itself, pos is not it.
SpliceSelfOne(l, k, j) ==
    /\ Running /\ Coherent(l)
    /\ j \in 1..Len(iters[l])
    /\ k # j
    /\ \E w \in {splice_one(W, l, IterAt(W, l, k), l, iters[l][j])} :
          /\ Bounded(w)
          /\ Return(w, [iters EXCEPT ![l] = ForwardNodes(w, l)])
    /\ ref' = [ref EXCEPT ![l] = MoveRange(@, j, j + 1, k)]
    /\ last' = "splice_self_one"

\* l.splice(pos, l, first, last): other is the list itself, the range is
\* [i, j) by position, and pos is not inside it.
SpliceSelfRange(l, k, i, j) ==
    /\ Running /\ Coherent(l)
    /\ i <= j
    /\ ~(i <= k /\ k < j)
    /\ \E w \in {splice_range(W, l, IterAt(W, l, k), l, IterAt(W, l, i), IterAt(W, l, j))} :
          /\ Bounded(w)
          /\ Return(w, [iters EXCEPT ![l] = ForwardNodes(w, l)])
    /\ ref' = [ref EXCEPT ![l] = MoveRange(@, i, j, k)]
    /\ last' = "splice_self_range"

Optimize(l, shrink_to_fit) ==
    /\ Running /\ Coherent(l)
    /\ \E order \in SortedOrders(W, l) :
         \E w \in {optimize(W, l, shrink_to_fit, order)} :
            Return(w, [iters EXCEPT ![l] = ForwardNodes(w, l)])
    /\ UNCHANGED ref
    /\ last' = IF shrink_to_fit THEN "optimize_shrink" ELSE "optimize"

\* l = std::move(o)
MoveAssign(l, o) ==
    /\ Running /\ Coherent(o)
    /\ l # o
    /\ \E w \in {move_assign(W, l, o)} :
          Return(w, [iters EXCEPT ![l] = iters[o], ![o] = <<>>])
    /\ ref' = [ref EXCEPT ![l] = ref[o], ![o] = <<>>]
    /\ last' = "move_assign"

\* l = o
CopyAssign(l, o) ==
    /\ Running /\ Coherent(o)
    /\ l # o
    /\ m_size[o] + m_size[o] <= MaxElems
    /\ \E w \in {copy_assign(W, l, o)} :
          /\ Bounded(w)
          /\ Return(w, [iters EXCEPT ![l] = WalkRange(w, l, 1, Len(ref[o]))])
    /\ ref' = [ref EXCEPT ![l] = ref[o]]
    /\ last' = "copy_assign"

\* Every public operation, on either list.
Next ==
    \/ \E l \in Lists, v \in Values : \E k \in Positions(l) : Emplace(l, k, v)
    \/ \E l \in Lists : \E k \in 1..Len(iters[l]) : Erase(l, k)
    \/ \E l \in Lists : Clear(l)
    \/ \E l \in Lists, n \in 0..MaxReserve : Reserve(l, n)
    \/ \E l \in Lists, n \in 0..MaxElems : Resize(l, n)
    \/ \E l \in Lists, v \in Values, count \in 0..MaxElems :
            \E k \in Positions(l) : InsertCount(l, k, count, v)
    \/ \E l \in Lists : ReverseList(l)
    \/ \E l \in Lists, o \in Lists : \E k \in Positions(l) : SpliceAll(l, k, o)
    \/ \E l \in Lists, o \in Lists : \E k \in Positions(l), j \in Positions(o) :
            SpliceOne(l, k, o, j)
    \/ \E l \in Lists, o \in Lists : \E k \in Positions(l), i \in Positions(o), j \in Positions(o) :
            SpliceRange(l, k, o, i, j)
    \/ \E l \in Lists, shrink_to_fit \in BOOLEAN : Optimize(l, shrink_to_fit)
    \/ \E l \in Lists, o \in Lists : MoveAssign(l, o)
    \/ \E l \in Lists, o \in Lists : CopyAssign(l, o)

Spec == Init /\ [][Next]_vars

\* One list: insertion (single and count), erasure and clear.
NextBasic ==
    \/ \E v \in Values : \E k \in Positions(1) : Emplace(1, k, v)
    \/ \E v \in Values, count \in 0..2 : \E k \in Positions(1) :
            InsertCount(1, k, count, v)
    \/ \E k \in 1..Len(iters[1]) : Erase(1, k)
    \/ Clear(1)

SpecBasic == Init /\ [][NextBasic]_vars

\* One list: the operations that change or depend on the capacity.  No
\* branch of these operations reads a payload, so one inserted value next to
\* the default value of resize() is enough here.
NextCap ==
    \/ \E v \in {MaxVal} : \E k \in Positions(1) : Emplace(1, k, v)
    \/ \E k \in 1..Len(iters[1]) : Erase(1, k)
    \/ Clear(1)
    \/ \E n \in 0..MaxReserve : Reserve(1, n)
    \/ \E n \in 0..MaxElems : Resize(1, n)
    \/ \E v \in {MaxVal}, count \in 0..2 : \E k \in Positions(1) :
            InsertCount(1, k, count, v)

SpecCap == Init /\ [][NextCap]_vars

\* One list: insertion, erasure, reserve and optimize.
NextOpt ==
    \/ \E v \in Values : \E k \in Positions(1) : Emplace(1, k, v)
    \/ \E k \in 1..Len(iters[1]) : Erase(1, k)
    \/ \E n \in 0..MaxReserve : Reserve(1, n)
    \/ \E shrink_to_fit \in BOOLEAN : Optimize(1, shrink_to_fit)

SpecOpt == Init /\ [][NextOpt]_vars

\* Two lists: insertion, erasure, clear, and the three splices into list 1.
NextSplice ==
    \/ \E l \in Lists, v \in Values : \E k \in Positions(l) : Emplace(l, k, v)
    \/ \E l \in Lists : \E k \in 1..Len(iters[l]) : Erase(l, k)
    \/ \E l \in Lists : Clear(l)
    \/ \E k \in Positions(1) : SpliceAll(1, k, 2)
    \/ \E k \in Positions(1), j \in 1..Len(iters[2]) : SpliceOne(1, k, 2, j)
    \/ \E k \in Positions(1), i \in Positions(2), j \in Positions(2) :
            SpliceRange(1, k, 2, i, j)

SpecSplice == Init /\ [][NextSplice]_vars

\* Two lists, with room for a third user bucket: list 1 takes the whole of
\* list 2 again and again; in between both lists gain and lose elements.
NextHandOver ==
    \/ \E l \in Lists : \E k \in Positions(l) :
            EmplaceWithin(l, k, MaxVal, MaxSpliceSlots)
    \/ \E k \in 1..Len(iters[1]) : Erase(1, k)
    \/ \E k \in Positions(1) : SpliceAllWithin(1, k, 2, MaxSpliceSlots)

SpecHandOver == Init /\ [][NextHandOver]_vars

\* One list: insertion, erasure and reverse.
NextReverse ==
    \/ \E v \in Values : \E k \in Positions(1) : Emplace(1, k, v)
    \/ \E k \in 1..Len(iters[1]) : Erase(1, k)
    \/ ReverseList(1)

SpecReverse == Init /\ [][NextReverse]_vars

\* Two lists: insertion, erasure, move and copy assignment.
NextAssign ==
    \/ \E l \in Lists, v \in Values : \E k \in Positions(l) : Emplace(l, k, v)
    \/ \E l \in Lists : \E k \in 1..Len(iters[l]) : Erase(l, k)
    \/ \E l \in Lists, o \in Lists : MoveAssign(l, o)
    \/ \E l \in Lists, o \in Lists : CopyAssign(l, o)

SpecAssign == Init /\ [][NextAssign]_vars

\* One list: insertion and erasure, and erase and pop where there is no
\* element to remove.
NextNoPayload ==
    \/ \E v \in Values : \E k \in Positions(1) : Emplace(1, k, v)
    \/ \E k \in 1..Len(iters[1]) : Erase(1, k)
    \/ \E pos \in {Null} \cup NodesOfList(W, 1) : EraseNoPayload(1, pos)
    \/ \E back \in BOOLEAN : PopEmpty(1, back)

SpecNoPayload == Init /\ [][NextNoPayload]_vars

\* One list with room for three user buckets of several sizes: insertion,
\* erasure and reserve.
NextSelect ==
    \/ \E k \in Positions(1) : EmplaceWithin(1, k, MaxVal, MaxSpliceSlots)
    \/ \E k \in 1..Len(iters[1]) : Erase(1, k)
    \/ \E n \in 0..MaxSpliceSlots : ReserveWithin(1, n, MaxSpliceSlots)

SpecSelect == Init /\ [][NextSelect]_vars

\* One list with room for a bucket larger than the list next to a smaller
\* one: push_back, pop_front, reserve and optimize(false).  reserve() takes
\* more than the capacity off its argument, so the arguments go beyond the
\* slots.
NextRefill ==
    \/ \E k \in {Len(iters[1]) + 1} :
            EmplaceBounded(1, k, MaxVal, MaxRefillSlots, MaxRefillElems)
    \/ Erase(1, 1)
    \/ \E n \in 0..(MaxRefillSlots + 1) : ReserveWithin(1, n, MaxRefillSlots)
    \/ Optimize(1, FALSE)

SpecRefill == Init /\ [][NextRefill]_vars

\* Two lists: insertion and erasure, and reserve on the second, so that
\* lists of equal contents differ in capacity, in holes and in where the
\* elements are stored.
NextCompare ==
    \/ \E l \in Lists, v \in Values : \E k \in Positions(l) :
            EmplaceWithin(l, k, v, MaxSpliceSlots)
    \/ \E l \in Lists : \E k \in 1..Len(iters[l]) : Erase(l, k)
    \/ \E n \in 0..MaxReserve : ReserveWithin(2, n, MaxSpliceSlots)

SpecCompare == Init /\ [][NextCompare]_vars

\* One list with room for three user buckets: insertion, erasure, reserve
\* and clear.
NextClear ==
    \/ \E k \in Positions(1) : EmplaceWithin(1, k, MaxVal, MaxSpliceSlots)
    \/ \E k \in 1..Len(iters[1]) : Erase(1, k)
    \/ \E n \in 0..MaxSpliceSlots : ReserveWithin(1, n, MaxSpliceSlots)
    \/ Clear(1)

SpecClear == Init /\ [][NextClear]_vars

\* Two lists: insertion into both, erasure from the first, and count and
\* range insertion into the first, the range taken from the second.
NextInsert ==
    \/ \E l \in Lists, v \in Values : \E k \in Positions(l) : Emplace(l, k, v)
    \/ \E k \in 1..Len(iters[1]) : Erase(1, k)
    \/ \E v \in Values, count \in 0..MaxElems : \E k \in Positions(1) :
            InsertCount(1, k, count, v)
    \/ \E k \in Positions(1), i \in Positions(2), j \in Positions(2) :
            InsertRange(1, k, 2, i, j)

SpecInsert == Init /\ [][NextInsert]_vars

\* One list: insertion, erasure, and element and range splice from the list
\* into itself.
NextSelfSplice ==
    \/ \E v \in Values : \E k \in Positions(1) : Emplace(1, k, v)
    \/ \E k \in 1..Len(iters[1]) : Erase(1, k)
    \/ \E k \in Positions(1), j \in 1..Len(iters[1]) : SpliceSelfOne(1, k, j)
    \/ \E k \in Positions(1), i \in Positions(1), j \in Positions(1) :
            SpliceSelfRange(1, k, i, j)

SpecSelfSplice == Init /\ [][NextSelfSplice]_vars

\* ------------------------------------------------------------ properties
\* The nodes of the non-sentinel blocks of l.
UserBuckets(w, l) == {w.m_buckets[l][i] : i \in 2..Len(w.m_buckets[l])}
UserNodes(w, l) == UNION {NodesOf(b, w.bsize[b]) : b \in UserBuckets(w, l) \cap DOMAIN w.bsize}

\* C1: after every sequence of emplace, insert, push_front, push_back,
\* erase, pop_front, pop_back and clear on an initially empty list, the walk
\* along next from begin() to end() yields exactly the reference list,
\* size() is its length, and the walk along prev from end() yields the same
\* elements in reverse order.
C1_RefinesList ==
    /\ fault = "none"
    /\ ForwardComplete(W, 1)
    /\ ValuesAt(W, ForwardNodes(W, 1)) = Payloads(ref[1])
    /\ m_size[1] = Len(ref[1])
    /\ ValuesAt(W, BackwardNodes(W, 1)) = Reverse(Payloads(ref[1]))

\* An erase left two different values in a list that has grown a second block.
C1_Witness ==
    /\ last = "erase"
    /\ Len(ref[1]) = 2 /\ ref[1][1] # ref[1][2]
    /\ Len(m_buckets[1]) = 3

\* C2: in every reachable state capacity() is the number of slots of the
\* non-sentinel blocks, and is size() plus the number of nodes on the hole
\* chain from m_first_hole.
C2_CapacityIsSlotsIsSizePlusHoles ==
    Running =>
        \A l \in Lists :
            /\ m_capacity[l] = Cardinality(UserNodes(W, l))
            /\ m_capacity[l] = m_size[l] + Len(HoleNodes(W, l))

\* C3: in every reachable state the hole chain from m_first_hole ends at
\* the node m_last_hole, whose next is null, and m_first_hole is null
\* exactly when m_last_hole is null.
C3_HoleChainEndsAtLastHole ==
    Running =>
        \A l \in Lists :
            \A holes \in {HoleNodes(W, l)} :
               /\ (m_first_hole[l] = Null) <=> (m_last_hole[l] = Null)
               /\ m_first_hole[l] # Null =>
                    /\ HoleChainEnds(W, l)
                    /\ holes # <<>>
                    /\ holes[Len(holes)] = m_last_hole[l]
                    /\ next[m_last_hole[l]] = Null

\* C4: in every reachable state each non-sentinel node is on the live chain
\* exactly when its payload is present and on the hole chain exactly when
\* it is absent, so on exactly one of the two.
C4_ChainsPartitionNodes ==
    Running =>
        \A l \in Lists :
            \A n \in UserNodes(W, l) :
                /\ (n \in SeqToSet(ForwardNodes(W, l))) <=> (elem[n] # NullOpt)
                /\ (n \in SeqToSet(HoleNodes(W, l))) <=> (elem[n] = NullOpt)

\* C5: the iterator obtained for an element when it was inserted keeps
\* designating that element, with its value, through every later insertion
\* and erasure of other elements, including an insertion that appends a block.
C5_IteratorsStable ==
    /\ fault = "none"
    /\ ForwardNodes(W, 1) = iters[1]
    /\ ValuesAt(W, iters[1]) = Payloads(ref[1])

\* The third element went into a newly appended block while the iterators
\* of the first two were held.
C5_Witness ==
    /\ last = "emplace"
    /\ Len(iters[1]) = 3 /\ Len(m_buckets[1]) = 3
    /\ \E k \in 1..3 : iters[1][k] = <<m_buckets[1][3], 0>>
    /\ \E k \in 1..3 : iters[1][k][1] = m_buckets[1][2]

\* C6: after reserve(n) returns on any reachable list, capacity() >= n.
C6_ReserveReachesN ==
    (Running /\ Coherent(1)) =>
        \A n \in 0..MaxReserve :
            \A w \in {reserve(W, 1, n)} :
                w.fault = "none" => w.m_capacity[1] >= n

\* C7: from any reachable state, inserting up to capacity() - size()
\* further elements, one at a time or as one count insert, appends no
\* block: the blocks and capacity() are as before.
C7_NoBlockWithinCapacity ==
    (Running /\ Coherent(1)) =>
        \A count \in 0..MaxSlots, k \in Positions(1), v \in Values :
            m_size[1] + count <= m_capacity[1] =>
                \A w \in {insert_count(W, 1, IterAt(W, 1, k), count, v),
                          emplace_times(W, 1, IterAt(W, 1, k), count, v)} :
                    /\ w.m_buckets[1] = m_buckets[1]
                    /\ w.bsize = bsize
                    /\ w.m_capacity[1] = m_capacity[1]

\* A count insert filled a reserved block of three slots exactly.
C7_Witness ==
    /\ last = "insert_count"
    /\ m_size[1] = 3 /\ m_capacity[1] = 3
    /\ Len(m_buckets[1]) = 2

\* C8: when n exceeds capacity() by at least MIN_BUCKET_SIZE, capacity()
\* is exactly n after reserve(n), on an empty list and on one that holds
\* elements.
C8_ReserveIsExact ==
    (Running /\ Coherent(1)) =>
        \A n \in 0..MaxReserve :
            n >= m_capacity[1] + MIN_BUCKET_SIZE =>
                \A w \in {reserve(W, 1, n)} :
                    w.fault = "none" => w.m_capacity[1] = n

\* capacity() of neither list is smaller in w than in the current state.
KeepsBoth(w) == \A x \in Lists : w.m_capacity[x] >= m_capacity[x]

\* Every public operation on l (with o as the other list) that neither
\* optimizes, nor takes the whole of o by splice, nor move-assigns, keeps
\* the capacity of both lists.
OrdinaryOperationsKeep(l, o) ==
    /\ \A k \in Positions(l), v \in Values :
            /\ KeepsBoth(emplace(W, l, IterAt(W, l, k), v))
            /\ \A count \in 0..MaxElems :
                    KeepsBoth(insert_count(W, l, IterAt(W, l, k), count, v))
    /\ \A k \in 1..Len(iters[l]) : KeepsBoth(erase(W, l, iters[l][k]))
    /\ KeepsBoth(clear(W, l))
    /\ \A n \in 0..MaxReserve : KeepsBoth(reserve(W, l, n))
    /\ \A n \in 0..MaxElems : KeepsBoth(resize(W, l, n))
    /\ KeepsBoth(reverse(W, l))
    /\ KeepsBoth(copy_assign(W, l, o))
    /\ \A k \in Positions(l), j \in 1..Len(iters[o]) :
            KeepsBoth(splice_one(W, l, IterAt(W, l, k), o, iters[o][j]))
    /\ \A k \in Positions(l), i \in Positions(o), j \in Positions(o) :
            (i <= j /\ ~(i = 1 /\ j = Len(iters[o]) + 1)) =>
                KeepsBoth(splice_range(W, l, IterAt(W, l, k), o,
                                       IterAt(W, o, i), IterAt(W, o, j)))
    /\ m_size[l] > 0 =>
            \A order \in SortedOrders(W, l) : KeepsBoth(optimize(W, l, FALSE, order))

\* C9 as stated: capacity() of a list never decreases across any public
\* operation other than optimize(true) and optimize on an empty list; in
\* particular not for either list across whole-list splice, range splice
\* and move assignment.
C9_CapacityNeverDecreases ==
    (Running /\ Coherent(1) /\ Coherent(2)) =>
        \A l \in Lists, o \in Lists :
            l # o =>
                /\ OrdinaryOperationsKeep(l, o)
                /\ \A k \in Positions(l) :
                        /\ KeepsBoth(splice(W, l, IterAt(W, l, k), o))
                        /\ KeepsBoth(splice_range(W, l, IterAt(W, l, k), o,
                                                  Begin(W, o), End(W, o)))
                /\ KeepsBoth(move_assign(W, l, o))

\* C9 amended: capacity() of a list never decreases across a public
\* operation other than optimize(true), optimize on an empty list, a splice
\* that takes the whole of another list, and move assignment.  A splice of
\* the whole of a non-empty other adds other's capacity to this list's and
\* leaves other with capacity 0; move assignment gives the target the
\* source's capacity and leaves the source with capacity 0.
C9_CapacityDecreasesOnlyByHandOver ==
    (Running /\ Coherent(1) /\ Coherent(2)) =>
        \A l \in Lists, o \in Lists :
            l # o =>
                /\ OrdinaryOperationsKeep(l, o)
                /\ \A k \in Positions(l) :
                        \A w \in {splice(W, l, IterAt(W, l, k), o),
                                  splice_range(W, l, IterAt(W, l, k), o,
                                               Begin(W, o), End(W, o))} :
                            IF m_size[o] = 0 THEN KeepsBoth(w)
                            ELSE /\ w.m_capacity[l] = m_capacity[l] + m_capacity[o]
                                 /\ w.m_capacity[o] = 0
                /\ \A w \in {move_assign(W, l, o)} :
                        w.m_capacity[l] = m_capacity[o] /\ w.m_capacity[o] = 0

\* A whole-list splice handed list 2's capacity over to list 1.
C9_Witness ==
    /\ last = "splice"
    /\ m_capacity[2] = 0 /\ m_capacity[1] = 2 * MIN_BUCKET_SIZE
    /\ m_size[1] = 3

\* C10: optimize(false) and optimize(true) leave size() unchanged and the
\* forward traversal yields the same values in the same order as before the
\* call, for every placement of the live elements in the slots.
C10_OptimizePreservesList ==
    last \in {"optimize", "optimize_shrink"} =>
        /\ fault = "none"
        /\ ForwardComplete(W, 1)
        /\ ValuesAt(W, ForwardNodes(W, 1)) = Payloads(ref[1])
        /\ m_size[1] = Len(ref[1])

\* C11: after optimize(true) on any list the call has returned and
\* capacity() == size(): no unused slot remains outside the sentinel block.
C11_ShrinkLeavesNoUnusedSlot ==
    last = "optimize_shrink" =>
        /\ fault = "none"
        /\ m_capacity[1] = m_size[1]

\* The slots of the blocks bs, block after block, each in address order.
RECURSIVE SlotsOf(_, _)
SlotsOf(w, bs) ==
    IF bs = <<>> THEN <<>>
    ELSE [i \in 1..SizeOf(w, Head(bs)) |-> <<Head(bs), i - 1>>] \o SlotsOf(w, Tail(bs))

\* C12: after optimize (either flag) on a non-empty list, the i-th element
\* in list order occupies the i-th slot of the destination blocks taken in
\* order, and elements then inserted at end() occupy the following slots of
\* the last destination block, while it has unused slots.
C12_OptimizeMakesContiguous ==
    \* The destination blocks of the optimize that has just returned: it
    \* appends them to m_buckets, every one but the last is filled, and their
    \* sizes descend, so they are the shortest tail of m_buckets that holds
    \* size() slots.
    LET DestinationBlocks(w, l) ==
            LET bs == Tail(w.m_buckets[l])
                Holds(j) == Len(SlotsOf(w, SubSeq(bs, j, Len(bs)))) >= w.m_size[l]
            IN IF \E j \in 1..Len(bs) : Holds(j)
               THEN SubSeq(bs, CHOOSE j \in 1..Len(bs) :
                                    Holds(j) /\ \A k \in (j + 1)..Len(bs) : ~Holds(k),
                           Len(bs))
               ELSE <<>>
    IN
    (last \in {"optimize", "optimize_shrink"} /\ Len(ref[1]) > 0) =>
        /\ fault = "none"
        /\ HasSentinels(W, 1)
        /\ \A slots \in {SlotsOf(W, DestinationBlocks(W, 1))} :
              /\ Len(slots) >= m_size[1]
              /\ ForwardNodes(W, 1) = SubSeq(slots, 1, m_size[1])
              /\ \A count \in 0..(Len(slots) - m_size[1]), v \in Values :
                    \A w \in {emplace_times(W, 1, End(W, 1), count, v)} :
                        /\ w.fault = "none"
                        /\ ForwardNodes(w, 1) = SubSeq(slots, 1, m_size[1] + count)

\* C13: optimize(false) on a non-empty list returns with capacity()
\* unchanged, and optimize(true) on a list that has a block it does not need
\* returns with capacity() strictly smaller than before and at least size().
C13_OptimizeCapacity ==
    \* The list has a block it does not need to hold its elements.
    LET HasUnneededBlock(w, l) ==
            \E b \in UserBuckets(w, l) : w.m_capacity[l] - SizeOf(w, b) >= w.m_size[l]
    IN
    (Running /\ Coherent(1)) =>
        \A order \in SortedOrders(W, 1) :
            /\ m_size[1] > 0 =>
                    \A w \in {optimize(W, 1, FALSE, order)} :
                        w.fault = "none" /\ w.m_capacity[1] = m_capacity[1]
            /\ HasUnneededBlock(W, 1) =>
                    \A w \in {optimize(W, 1, TRUE, order)} :
                        /\ w.fault = "none"
                        /\ w.m_capacity[1] < m_capacity[1]
                        /\ w.m_capacity[1] >= w.m_size[1]

\* C14: optimize(true) on an empty list releases every non-sentinel block:
\* afterwards empty() holds, capacity() == 0 and only the sentinel block
\* remains; optimize(false) on an empty list keeps capacity() and the blocks
\* and turns every slot into a hole.  An empty list never reaches the
\* std::sort of optimize, so no order of the blocks is passed.
C14_OptimizeEmpty ==
    Running =>
        \A l \in Lists :
            (m_size[l] = 0 /\ ref[l] = <<>>) =>
                /\ \A w \in {optimize(W, l, TRUE, <<>>)} :
                        /\ w.fault = "none"
                        /\ w.m_size[l] = 0
                        /\ ForwardComplete(w, l) /\ ForwardNodes(w, l) = <<>>
                        /\ w.m_capacity[l] = 0
                        /\ Len(w.m_buckets[l]) = 1
                        /\ UserBuckets(W, l) \cap DOMAIN w.bsize = {}
                /\ \A w \in {optimize(W, l, FALSE, <<>>)} :
                        /\ w.fault = "none"
                        /\ w.m_size[l] = 0
                        /\ ForwardComplete(w, l) /\ ForwardNodes(w, l) = <<>>
                        /\ w.m_capacity[l] = m_capacity[l]
                        /\ w.m_buckets[l] = m_buckets[l]
                        /\ w.bsize = bsize
                        /\ SeqToSet(HoleNodes(w, l)) = UserNodes(w, l)
                        /\ Len(HoleNodes(w, l)) = Cardinality(UserNodes(w, l))
                        /\ \A n \in UserNodes(w, l) : w.elem[n] = NullOpt

\* C15: whole-list splice(pos, other) with other non-empty and distinct
\* from this inserts other's elements, in their order, immediately before
\* pos; afterwards size() of this is the sum of both sizes, other is empty
\* with capacity() == 0, and every moved element is held by the node that
\* held it before.
C15_WholeSpliceMovesNodes ==
    (Running /\ Coherent(1) /\ Coherent(2) /\ m_size[2] > 0) =>
        \A k \in Positions(1) :
            \A w \in {splice(W, 1, IterAt(W, 1, k), 2)} :
                /\ w.fault = "none"
                /\ ForwardComplete(w, 1)
                /\ ForwardNodes(w, 1) = InsertSeq(iters[1], k, iters[2])
                /\ ValuesAt(w, ForwardNodes(w, 1)) = Payloads(InsertSeq(ref[1], k, ref[2]))
                /\ w.m_size[1] = m_size[1] + m_size[2]
                /\ w.m_size[2] = 0
                /\ ForwardComplete(w, 2) /\ ForwardNodes(w, 2) = <<>>
                /\ w.m_capacity[2] = 0

\* What a traversal of l reads, provided it arrives at end().
Traversal(w, l) == ValuesAt(w, ForwardNodes(w, l))

\* The two lists of w hold exactly a and b, and the call returned.
ListsAre(w, a, b) ==
    /\ w.fault = "none"
    /\ ForwardComplete(w, 1) /\ Traversal(w, 1) = Payloads(a)
    /\ ForwardComplete(w, 2) /\ Traversal(w, 2) = Payloads(b)
    /\ w.m_size[1] = Len(a) /\ w.m_size[2] = Len(b)

\* C16: element splice(pos, other, it) and range splice(pos, other, first,
\* last) between two distinct lists keep size(this) + size(other), insert
\* the transferred values before pos in their original order, and remove
\* exactly those elements from other, whose remaining elements keep their
\* order.
C16_PartialSpliceTransfers ==
    (Running /\ Coherent(1) /\ Coherent(2)) =>
        \A k \in Positions(1) :
            /\ \A j \in 1..Len(iters[2]) :
                    \A w \in {splice_one(W, 1, IterAt(W, 1, k), 2, iters[2][j])} :
                        /\ ListsAre(w, InsertAt(ref[1], k, ref[2][j]), RemoveAt(ref[2], j))
                        /\ w.m_size[1] + w.m_size[2] = m_size[1] + m_size[2]
            /\ \A i \in Positions(2), j \in Positions(2) :
                    i <= j =>
                        \A w \in {splice_range(W, 1, IterAt(W, 1, k), 2,
                                               IterAt(W, 2, i), IterAt(W, 2, j))} :
                            /\ ListsAre(w, InsertSeq(ref[1], k, SubSeq(ref[2], i, j - 1)),
                                        Without(ref[2], i, j))
                            /\ w.m_size[1] + w.m_size[2] = m_size[1] + m_size[2]

\* for (v : vs) push_back(v)
RECURSIVE push_back_all(_, _, _)
push_back_all(w, l, vs) ==
    IF vs = <<>> \/ w.fault # "none" \/ ~HasSentinels(w, l) THEN w
    ELSE push_back_all(emplace(w, l, End(w, l), Head(vs)), l, Tail(vs))

\* erase(std::next(begin(), index))
erase_at(w, l, index) == erase(w, l, WalkAt(w, l, index + 1))

\* C17: erase(pos) on a live element removes exactly that element,
\* decrements size() by one and returns an iterator to the element that
\* followed pos (end() if pos was last); erase(first, last) removes exactly
\* the elements of [first, last) and returns last.  The other elements stay
\* in their nodes and in their order.  On a new list filled with 0..9,
\* erasing index 2 and then index 5 leaves 0,1,3,4,5,7,8,9.
C17_EraseRemovesExactly ==
    /\ last = "vec_list" =>
            \A w \in {erase_at(erase_at(push_back_all(W, 1, [i \in 1..10 |-> i - 1]),
                                        1, 2), 1, 5)} :
                /\ w.fault = "none"
                /\ ForwardComplete(w, 1)
                /\ Traversal(w, 1) = Payloads(<<0, 1, 3, 4, 5, 7, 8, 9>>)
                /\ w.m_size[1] = 8
    /\ Running =>
        \A l \in Lists :
            Coherent(l) =>
                /\ \A k \in 1..Len(iters[l]) :
                        \A w \in {erase(W, l, iters[l][k])} :
                            /\ w.fault = "none"
                            /\ w.m_size[l] = m_size[l] - 1
                            /\ ForwardComplete(w, l)
                            /\ ForwardNodes(w, l) = RemoveAt(iters[l], k)
                            /\ Traversal(w, l) = Payloads(RemoveAt(ref[l], k))
                            /\ erase_result(W, iters[l][k]) = IterAt(W, l, k + 1)
                /\ \A i \in Positions(l), j \in Positions(l) :
                        i <= j =>
                            \A w \in {erase_range(W, l, IterAt(W, l, i), IterAt(W, l, j),
                                                  MaxElems + 1)} :
                                /\ w.fault = "none"
                                /\ w.m_size[l] = m_size[l] - (j - i)
                                /\ ForwardComplete(w, l)
                                /\ ForwardNodes(w, l) = Without(iters[l], i, j)
                                /\ Traversal(w, l) = Payloads(Without(ref[l], i, j))
                                /\ erase_range_result(W, l, IterAt(W, l, i), IterAt(W, l, j),
                                                      MaxElems + 1) = IterAt(W, l, j)

\* The middle one of three elements was erased: its node heads the hole
\* chain and still names the first element as its predecessor.
C17_Witness ==
    /\ last = "erase"
    /\ Len(iters[1]) = 2
    /\ m_first_hole[1] # Null
    /\ prev[m_first_hole[1]] = iters[1][1]
    /\ next[iters[1][1]] = iters[1][2]
    /\ iters[1][1][1] # iters[1][2][1]

\* C18: in every reachable state block 0 of every list object holds
\* exactly the two sentinel nodes, also in a list that was the source of a
\* move assignment or of a whole-list splice; the sentinels hold no payload
\* and are not on the hole chain.
C18_SentinelBlockStays ==
    Running =>
        \A l \in Lists :
            /\ HasSentinels(W, l)
            /\ m_buckets[l][1] \in DOMAIN bsize
            /\ BucketSize(W, m_buckets[l][1]) = 2
            /\ elem[End(W, l)] = NullOpt /\ elem[RendNode(W, l)] = NullOpt
            /\ {End(W, l), RendNode(W, l)} \cap SeqToSet(HoleNodes(W, l)) = {}

\* C19: reverse() on any list, the empty and the one-element list
\* included, returns with size() unchanged and the forward traversal equal
\* to the previous one reversed, element for element in the same nodes;
\* begin() == end() still holds for an empty list; a second reverse()
\* restores the original order.
C19_ReverseReverses ==
    (Running /\ Coherent(1)) =>
        \A w \in {reverse(W, 1)} :
            /\ w.fault = "none"
            /\ w.m_size[1] = m_size[1]
            /\ ForwardComplete(w, 1)
            /\ ForwardNodes(w, 1) = Reverse(iters[1])
            /\ Traversal(w, 1) = Payloads(Reverse(ref[1]))
            /\ m_size[1] = 0 => Begin(w, 1) = End(w, 1)
            /\ \A w2 \in {reverse(w, 1)} :
                    /\ w2.fault = "none"
                    /\ ForwardComplete(w2, 1)
                    /\ ForwardNodes(w2, 1) = iters[1]
                    /\ Traversal(w2, 1) = Payloads(ref[1])

\* The blocks and nodes of l and o are disjoint, and no link of l leads
\* into a block of o.
SharesNothing(w, l, o) ==
    /\ SeqToSet(w.m_buckets[l]) \cap SeqToSet(w.m_buckets[o]) = {}
    /\ \A n \in SeqToSet(ForwardNodes(w, l)) \cup SeqToSet(HoleNodes(w, l)) :
            n[1] \in SeqToSet(w.m_buckets[l])

\* C20: move assignment a = std::move(b) gives a exactly b's former
\* elements in order, in the same nodes, with b's former size() and
\* capacity(), and leaves b with size() == 0 and capacity() == 0; copy
\* assignment a = b gives a an equal element sequence in nodes disjoint from
\* b's and leaves b as it was.  a is any list object, b any list that
\* traverses as its reference list.
C20_AssignmentTransfersOrCopies ==
    Running =>
        \A l \in Lists, o \in Lists :
            (l # o /\ Coherent(o)) =>
                /\ \A w \in {move_assign(W, l, o)} :
                        /\ w.fault = "none"
                        /\ ForwardComplete(w, l)
                        /\ ForwardNodes(w, l) = iters[o]
                        /\ Traversal(w, l) = Payloads(ref[o])
                        /\ w.m_size[l] = m_size[o]
                        /\ w.m_capacity[l] = m_capacity[o]
                        /\ w.m_size[o] = 0
                        /\ w.m_capacity[o] = 0
                /\ \A w \in {copy_assign(W, l, o)} :
                        /\ w.fault = "none"
                        /\ ForwardComplete(w, l)
                        /\ Traversal(w, l) = Payloads(ref[o])
                        /\ w.m_size[l] = m_size[o]
                        /\ ForwardComplete(w, o)
                        /\ ForwardNodes(w, o) = iters[o]
                        /\ Traversal(w, o) = Payloads(ref[o])
                        /\ SharesNothing(w, l, o)
                        /\ SharesNothing(w, o, l)

\* The order of two sequences of integers by their first difference; a proper
\* prefix is less.
RECURSIVE Lexicographic(_, _)
Lexicographic(s, t) ==
    IF s = <<>> THEN (IF t = <<>> THEN "equal" ELSE "less")
    ELSE IF t = <<>> THEN "greater"
    ELSE IF Head(s) < Head(t) THEN "less"
    ELSE IF Head(s) > Head(t) THEN "greater"
    ELSE Lexicographic(Tail(s), Tail(t))

\* The layout of a list: its capacity, its holes and the nodes of its elements.
Layout(l) == <<m_capacity[l], Len(HoleNodes(W, l)),
               [i \in 1..Len(iters[l]) |-> iters[l][i][2]]>>

\* C21: operator== is true exactly when both lists have the same size and
\* equal elements position by position, and operator<=> orders the lists
\* lexicographically, a proper prefix being less than the longer list;
\* neither depends on capacity, holes or where the elements are stored.
C21_ComparisonsFollowContents ==
    (Running /\ Coherent(1) /\ Coherent(2)) =>
        \A a \in Lists, b \in Lists :
            /\ operator_eq(W, a, b) = (IF ref[a] = ref[b] THEN "true" ELSE "false")
            /\ operator_cmp(W, a, b) = Lexicographic(ref[a], ref[b])

\* Two lists of equal contents that differ in capacity, in the number of
\* holes and in where the element is stored.
C21_Witness ==
    /\ Running /\ Coherent(1) /\ Coherent(2)
    /\ ref[1] = ref[2] /\ Len(ref[1]) = 1
    /\ m_capacity[1] # m_capacity[2]
    /\ Len(HoleNodes(W, 1)) # Len(HoleNodes(W, 2))
    /\ Layout(1)[3] # Layout(2)[3]
    /\ operator_eq(W, 1, 2) = "true"
    /\ operator_cmp(W, 1, 2) = "equal"

\* C22: erase, pop_front and pop_back on a position without payload (end(),
\* the sentinel a pop on an empty list reaches, an erased node) stop at the
\* assertion before anything is modified: size, links, payloads and the hole
\* chain are as they were.
C22_AssertionBeforeAnyChange ==
    [][last' \in {"erase_no_payload", "pop_empty"} =>
            /\ fault' = "assert"
            /\ UNCHANGED <<next, prev, elem, bsize, m_buckets, m_first_hole,
                           m_last_hole, m_size, m_capacity>>]_vars

\* erase() has stopped at its assertion on a list with elements and holes.
C22_Witness ==
    /\ fault = "assert" /\ last = "erase_no_payload"
    /\ m_size[1] > 0 /\ m_first_hole[1] # Null

\* The insertions of n elements at once, n = 1 also as emplace(pos, v), at
\* every position of l: the number inserted and the state after the call.
Insertions(l) ==
    {[n |-> 1, w |-> emplace(W, l, IterAt(W, l, k), MaxVal)] : k \in Positions(l)}
    \cup {[n |-> count, w |-> insert_count(W, l, IterAt(W, l, k), count, MaxVal)] :
            k \in Positions(l), count \in 1..(MIN_BUCKET_SIZE + 1)}

\* The call returned and appended exactly one block to l.
AppendsOneBlock(w, l) ==
    /\ w.fault = "none"
    /\ Len(w.m_buckets[l]) = Len(m_buckets[l]) + 1
    /\ SubSeq(w.m_buckets[l], 1, Len(m_buckets[l])) = m_buckets[l]
    /\ w.m_capacity[l] = m_capacity[l] + w.bsize[w.m_buckets[l][Len(w.m_buckets[l])]]

NewBlockSize(w, l) == w.bsize[w.m_buckets[l][Len(w.m_buckets[l])]]

\* Every insertion into a full list appends one block that at least doubles
\* capacity().
FullListDoubles ==
    (Running /\ Coherent(1) /\ m_size[1] = m_capacity[1] /\ m_capacity[1] > 0) =>
        \A i \in Insertions(1) :
            AppendsOneBlock(i.w, 1) /\ i.w.m_capacity[1] >= 2 * m_capacity[1]

\* C23: a newly constructed list has capacity() == 0; the first insertion
\* appends one block of exactly MIN_BUCKET_SIZE slots; every later insertion
\* into a full list (size() == capacity() > 0) appends one block that at
\* least doubles capacity().
C23_FirstBlockIsMinimal ==
    /\ last = "vec_list" =>
            /\ m_capacity[1] = 0
            /\ \A i \in Insertions(1) :
                    AppendsOneBlock(i.w, 1) /\ NewBlockSize(i.w, 1) = MIN_BUCKET_SIZE
    /\ FullListDoubles

\* C23 as amended: the first block has MIN_BUCKET_SIZE slots, or as many as
\* the elements inserted at once where these are more.
C23_FirstBlockFitsTheInsertion ==
    /\ last = "vec_list" =>
            /\ m_capacity[1] = 0
            /\ \A i \in Insertions(1) :
                    /\ AppendsOneBlock(i.w, 1)
                    /\ NewBlockSize(i.w, 1) = Max(MIN_BUCKET_SIZE, i.n)
    /\ FullListDoubles

\* A full list whose one block is larger than the minimum, where an
\* insertion of one element appends a block of as many slots again.
C23_Witness ==
    /\ Running /\ Coherent(1)
    /\ m_size[1] = m_capacity[1] /\ m_capacity[1] = MIN_BUCKET_SIZE + 1
    /\ \E i \in Insertions(1) :
            /\ i.n = 1 /\ AppendsOneBlock(i.w, 1)
            /\ NewBlockSize(i.w, 1) = MIN_BUCKET_SIZE + 1
            /\ i.w.m_size[1] = m_size[1] + 1

\* C24: after a whole-list splice(pos, other) every hole of both lists is
\* reachable from this list's first_hole, whether or not this and other had
\* holes; where this had none and other had some, first_hole is non-null
\* afterwards.
C24_SpliceMergesHoleChains ==
    (Running /\ Coherent(1) /\ Coherent(2)) =>
        \A k \in Positions(1) :
            \A w \in {splice(W, 1, IterAt(W, 1, k), 2)} :
                /\ w.fault = "none"
                /\ SeqToSet(HoleNodes(W, 1)) \cup SeqToSet(HoleNodes(W, 2))
                        \subseteq SeqToSet(HoleNodes(w, 1))
                /\ (m_first_hole[1] = Null /\ m_first_hole[2] # Null)
                        => w.m_first_hole[1] # Null

\* C25: whenever emplace takes a slot, first_hole is non-null where it is
\* dereferenced: in every reachable state with first_hole null, size() ==
\* capacity(), so that resize_to_fit(1) appends a block and does not return
\* early.
C25_FirstHoleNullOnlyWhenFull ==
    Running =>
        \A l \in Lists :
            Coherent(l) =>
                /\ m_first_hole[l] = Null => m_size[l] = m_capacity[l]
                /\ \A k \in Positions(l) :
                        \A w \in {emplace(W, l, IterAt(W, l, k), MaxVal)} :
                            /\ w.fault = "none"
                            /\ m_first_hole[l] = Null =>
                                    Len(w.m_buckets[l]) = Len(m_buckets[l]) + 1

\* C26: during optimize, after each iteration of the relocation loop the
\* live chain is consistent: every live node n has n.prev.next == n and
\* n.next.prev == n, and following next from the head sentinel reaches the
\* tail sentinel through all size() elements in the original order.
C26_ChainConsistentInsideOptimize ==
    \* Every node with a payload lies between its neighbours.
    LET LiveChainConsistent(w) ==
            \A n \in DOMAIN w.elem :
                w.elem[n] # NullOpt =>
                    /\ Valid(w, w.prev[n]) /\ w.next[w.prev[n]] = n
                    /\ Valid(w, w.next[n]) /\ w.prev[w.next[n]] = n
    IN
    (Running /\ Coherent(1)) =>
        \A order \in SortedOrders(W, 1) :
            \A trace \in {optimize_trace(W, 1, order, MaxElems + 1)} :
                \A i \in 1..Len(trace) :
                    /\ trace[i].fault = "none"
                    /\ LiveChainConsistent(trace[i])
                    /\ ForwardComplete(trace[i], 1)
                    /\ ValuesAt(trace[i], ForwardNodes(trace[i], 1)) = Payloads(ref[1])

\* C27: optimize terminates on every reachable list: its relocation loop
\* performs exactly size() iterations, never indexes past the last
\* destination block, and reaches the tail sentinel.
C27_OptimizeTerminates ==
    (Running /\ Coherent(1) /\ m_size[1] > 0) =>
        \A order \in SortedOrders(W, 1) :
            /\ \A trace \in {optimize_trace(W, 1, order, m_size[1] + 1)} :
                    /\ Len(trace) = m_size[1]
                    /\ \A i \in 1..Len(trace) : trace[i].fault = "none"
            /\ \A shrink_to_fit \in BOOLEAN :
                    optimize(W, 1, shrink_to_fit, order).fault = "none"

\* The slot count of a set of blocks.
RECURSIVE SlotCount(_, _)
SlotCount(w, S) ==
    IF S = {} THEN 0
    ELSE LET b == CHOOSE x \in S : TRUE IN w.bsize[b] + SlotCount(w, S \ {b})

\* The destination selection of optimize() on l, for one outcome of std::sort.
Selection(w, l, order) ==
    select_loop(w, <<w.m_buckets[l][1]>> \o order, <<>>, 0, 1, w.m_size[l])

\* C28: the number of destination blocks optimize selects is the least number
\* of existing non-sentinel blocks whose slots together are at least size(),
\* and the slots of the selected blocks together are at least size(): the
\* assertion dst_capacity >= m_size never fails.
C28_SelectsFewestBlocks ==
    \* The least number of non-sentinel blocks of l that hold size() slots.
    LET MinBlocks(w, l) ==
            LET enough == {S \in SUBSET UserBuckets(w, l) : SlotCount(w, S) >= w.m_size[l]}
            IN CHOOSE n \in 0..Len(w.m_buckets[l]) :
                    /\ \E S \in enough : Cardinality(S) = n
                    /\ \A S \in enough : Cardinality(S) >= n
    IN
    (Running /\ Coherent(1) /\ m_size[1] > 0) =>
        \A order \in SortedOrders(W, 1) :
            \A sel \in {Selection(W, 1, order)} :
                /\ sel.dst_capacity >= m_size[1]
                /\ sel.dst_capacity = SlotCount(W, SeqToSet(sel.dst_buckets))
                /\ Len(sel.dst_buckets) = Cardinality(SeqToSet(sel.dst_buckets))
                /\ SeqToSet(sel.dst_buckets) \subseteq UserBuckets(W, 1)
                /\ Len(sel.dst_buckets) = MinBlocks(W, 1)

\* A list where the selection passes over the largest block, because a
\* smaller one holds the elements.
C28_Witness ==
    /\ Running /\ Coherent(1) /\ m_size[1] > 0
    /\ \E order \in SortedOrders(W, 1) :
            \E sel \in {Selection(W, 1, order)} :
                /\ Len(sel.dst_buckets) = 1
                /\ sel.dst_buckets[1] # order[1]
                /\ bsize[sel.dst_buckets[1]] < bsize[order[1]]

\* The blocks of order that the selection sel did not take, in that order.
Leftover(order, sel) ==
    SelectSeq(order, LAMBDA b : b \notin SeqToSet(sel.dst_buckets))

\* The slots of the destination blocks behind the first size of them.
UnusedTail(w, sel, size) ==
    SubSeq(SlotsOf(w, sel.dst_buckets), size + 1, Len(SlotsOf(w, sel.dst_buckets)))

\* C29: after optimize(false) the hole chain is the unused tail of the last
\* destination block, then the blocks that were not selected, in descending
\* order of their slot counts, each with its slots in address order, so that
\* the largest block left over is used up before the smaller ones.
C29_RefillLargestFirst ==
    LET Descending(w, bs) ==
            \A i \in 1..Len(bs) : i < Len(bs) => w.bsize[bs[i]] >= w.bsize[bs[i + 1]]
    IN
    (Running /\ Coherent(1) /\ m_size[1] > 0) =>
        \A order \in SortedOrders(W, 1) :
            \A w \in {optimize(W, 1, FALSE, order)}, sel \in {Selection(W, 1, order)} :
                w.fault = "none" =>
                    /\ Descending(w, Leftover(order, sel))
                    /\ Len(UnusedTail(w, sel, m_size[1])) < w.bsize[sel.dst_buckets[Len(sel.dst_buckets)]]
                    /\ HoleChainEnds(w, 1)
                    /\ HoleNodes(w, 1) =
                            UnusedTail(w, sel, m_size[1]) \o SlotsOf(w, Leftover(order, sel))

\* C30: slot reuse is last in, first out: after erase(x) the erased node is
\* first_hole, and the next emplace, with no erase, clear, reserve, splice
\* or optimize in between, stores its element in that same node; the node
\* emplace takes is never a sentinel.
C30_SlotReuseIsLIFO ==
    (Running /\ Coherent(1)) =>
        /\ \A k \in 1..Len(iters[1]) :
            \A x \in {iters[1][k]} :
                \A w \in {erase(W, 1, x)} :
                    /\ w.fault = "none"
                    /\ w.m_first_hole[1] = x
                    /\ \A pos \in (SeqToSet(iters[1]) \ {x}) \cup {End(W, 1)} :
                          \A w2 \in {emplace(w, 1, pos, MaxVal)} :
                              /\ w2.fault = "none"
                              /\ w2.elem[x] = Some(MaxVal)
                              /\ w2.next[x] = pos /\ w2.prev[pos] = x
                              /\ w2.m_buckets[1] = m_buckets[1]
                              /\ w2.m_first_hole[1] = m_first_hole[1]
        /\ \A k \in Positions(1) :
            \A pos \in {IterAt(W, 1, k)} :
                \A w \in {emplace(W, 1, pos, MaxVal)} :
                    /\ w.fault = "none"
                    /\ w.prev[pos] = emplace_result(W, 1)
                    /\ w.prev[pos] \notin {End(W, 1), RendNode(W, 1)}
                    /\ w.prev[pos] \in UserNodes(w, 1)
                    /\ w.elem[w.prev[pos]] = Some(MaxVal)

\* An element has just been erased from a list that had a hole already and
\* keeps an element; the next emplace stores its element in the erased node.
C30_Witness ==
    /\ Running /\ Coherent(1) /\ last = "erase"
    /\ m_size[1] >= 1 /\ Len(HoleNodes(W, 1)) >= 2
    /\ \E w \in {emplace(W, 1, End(W, 1), MaxVal)} :
            /\ w.fault = "none"
            /\ w.elem[m_first_hole[1]] = Some(MaxVal)
            /\ w.m_first_hole[1] = next[m_first_hole[1]]

\* The holes of l: the nodes on its hole chain and the nodes of its
\* non-sentinel blocks that hold no payload.
Holes(w, l) ==
    SeqToSet(HoleNodes(w, l)) \cup {n \in UserNodes(w, l) : w.elem[n] = NullOpt}

\* C31: reverse() changes no hole: first_hole, last_hole, the next link of
\* every hole, capacity() and the set of blocks are the same after the call
\* as before.  Checked of what the call has written also where it does not
\* return.
C31_ReverseLeavesHoles ==
    Running =>
        \A w \in {reverse(W, 1)} :
            /\ w.m_first_hole = m_first_hole
            /\ w.m_last_hole = m_last_hole
            /\ w.m_capacity = m_capacity
            /\ w.m_buckets = m_buckets
            /\ w.bsize = bsize
            /\ HoleNodes(w, 1) = HoleNodes(W, 1)
            /\ \A n \in Holes(W, 1) :
                    /\ w.next[n] = next[n]
                    /\ w.prev[n] = prev[n]
                    /\ w.elem[n] = elem[n]

\* reverse() has returned on a list of two elements in different blocks
\* that has holes, one of them an erased node that still names an element
\* as its predecessor.
C31_Witness ==
    /\ Running /\ Coherent(1) /\ last = "reverse"
    /\ Len(iters[1]) = 2 /\ iters[1][1][1] # iters[1][2][1]
    /\ Len(HoleNodes(W, 1)) >= 2
    /\ \E n \in Holes(W, 1) : prev[n] \in SeqToSet(iters[1])

\* C32: range splice(pos, other, first, last) with first == other.begin()
\* and last == other.end() behaves exactly as whole-list splice(pos, other):
\* the elements keep their nodes, linked in their order immediately before
\* pos, and other ends empty with capacity() == 0; for an empty other it
\* changes neither list.
C32_WholeRangeSpliceIsWholeSplice ==
    (Running /\ Coherent(1) /\ Coherent(2)) =>
        \A k \in Positions(1) :
            \A pos \in {IterAt(W, 1, k)} :
                \A w \in {splice_range(W, 1, pos, 2, Begin(W, 2), End(W, 2))} :
                    /\ w = splice(W, 1, pos, 2)
                    /\ w.fault = "none"
                    /\ IF m_size[2] = 0 THEN w = W
                       ELSE /\ \A i \in 1..Len(iters[2]) :
                                    /\ w.elem[iters[2][i]] = Some(ref[2][i])
                                    /\ iters[2][i][1] \in SeqToSet(w.m_buckets[1])
                                    /\ w.next[iters[2][i]] =
                                            (IF i < Len(iters[2]) THEN iters[2][i + 1] ELSE pos)
                            /\ w.prev[pos] = iters[2][Len(iters[2])]
                            /\ w.prev[iters[2][1]] = prev[pos]
                            /\ w.m_size[1] = m_size[1] + m_size[2]
                            /\ w.m_size[2] = 0
                            /\ ForwardComplete(w, 2) /\ ForwardNodes(w, 2) = <<>>
                            /\ w.m_capacity[2] = 0

\* A range splice of the whole of list 2, which held two elements, has
\* handed its block over to list 1, which held one.
C32_Witness ==
    /\ Running /\ last = "splice_range"
    /\ m_size[1] = 3 /\ Len(m_buckets[1]) = 3
    /\ m_size[2] = 0 /\ m_capacity[2] = 0

\* C33: clear() sets size() to 0 and begin() == end(), leaves capacity() and
\* the set of blocks unchanged, and puts every non-sentinel slot on the hole
\* chain exactly once, for any number of user blocks.
C33_ClearTurnsEverySlotIntoAHole ==
    Running =>
        \A w \in {clear(W, 1)} :
            /\ w.fault = "none"
            /\ w.m_size[1] = 0
            /\ Begin(w, 1) = End(w, 1)
            /\ w.m_capacity[1] = m_capacity[1]
            /\ w.m_buckets[1] = m_buckets[1]
            /\ w.bsize = bsize
            /\ HoleChainEnds(w, 1)
            /\ SeqToSet(HoleNodes(w, 1)) = UserNodes(w, 1)
            /\ Len(HoleNodes(w, 1)) = Cardinality(UserNodes(w, 1))
            /\ \A n \in UserNodes(w, 1) : w.elem[n] = NullOpt

\* clear() has returned on a list of three user blocks.
C33_Witness ==
    /\ Running /\ last = "clear"
    /\ Len(m_buckets[1]) = 4
    /\ m_size[1] = 0
    /\ m_capacity[1] >= 3 * MIN_BUCKET_SIZE
    /\ Len(HoleNodes(W, 1)) = m_capacity[1]

\* C34: reserve(n) with n <= capacity() is a no-op for every combination of
\* size() and capacity(), including n < capacity() - size(): it returns,
\* appends no block and leaves capacity() unchanged.
C34_ReserveBelowCapacityIsNoOp ==
    (Running /\ Coherent(1)) =>
        \A n \in 0..MaxReserve :
            n <= m_capacity[1] =>
                \A w \in {reserve(W, 1, n)} :
                    /\ w.fault = "none"
                    /\ w.m_buckets[1] = m_buckets[1]
                    /\ w.bsize = bsize
                    /\ w.m_capacity[1] = m_capacity[1]

\* C35: no pointer held by a list (first_hole, last_hole, or the prev/next
\* of any sentinel, live node or hole) ever designates a node of a block
\* that has been released or that belongs to another list; in particular
\* last_hole does not keep designating a released node after optimize(true)
\* on an empty list.
C35_NoPointerLeavesTheList ==
    \* The pointers a list holds: its two hole pointers, and prev and next of
    \* every node of its blocks.
    LET PointersOf(w, l) ==
            {w.m_first_hole[l], w.m_last_hole[l]}
            \cup {w.next[n] : n \in NodesOfList(w, l)}
            \cup {w.prev[n] : n \in NodesOfList(w, l)}
    IN
    Running =>
        \A l \in Lists :
            \A p \in PointersOf(W, l) : p = Null \/ p \in NodesOfList(W, l)

\* C36: after every public operation the live chain is a well-formed
\* doubly-linked list: head.next.prev == head, tail.prev.next == tail, for
\* every live node n both n.prev.next == n and n.next.prev == n, and the
\* chain from head reaches tail in exactly size() + 1 steps without a cycle.
C36_LiveChainWellFormed ==
    \* The live chain of l is a well-formed doubly-linked list from the head
    \* sentinel (&m_buckets[0][1]) to the tail sentinel (&m_buckets[0][0]).
    LET WellFormedChain(w, l) ==
            /\ HasSentinels(w, l)
            /\ \A head \in {RendNode(w, l)}, tail \in {End(w, l)} :
                  /\ Valid(w, w.next[head]) /\ w.prev[w.next[head]] = head
                  /\ Valid(w, w.prev[tail]) /\ w.next[w.prev[tail]] = tail
                  /\ \A n \in NodesOfList(w, l) :
                        w.elem[n] # NullOpt =>
                            /\ Valid(w, w.prev[n]) /\ w.next[w.prev[n]] = n
                            /\ Valid(w, w.next[n]) /\ w.prev[w.next[n]] = n
                  /\ \A walk \in {FollowNext(w, head, tail, Fuel(w))} :
                        /\ ReachNext(w, head, tail, Fuel(w)) = tail
                        /\ Len(walk) = w.m_size[l] + 1
                        /\ Cardinality(SeqToSet(walk)) = Len(walk)
    IN
    Running => \A l \in Lists : WellFormedChain(W, l)

\* The call that led from the current state to w has returned, has
\* inserted vals before position k of list 1, in that order and with the
\* elements that were there in their nodes, and has appended at most one
\* block: the one, if any, that resize_to_fit(Len(vals)) appends before the
\* first element is written.
InsertedAt(w, k, vals) ==
    /\ w.fault = "none"
    /\ Len(w.m_buckets[1]) <= Len(m_buckets[1]) + 1
    /\ SubSeq(w.m_buckets[1], 1, Len(m_buckets[1])) = m_buckets[1]
    /\ \A w0 \in {resize_to_fit(W, 1, Len(vals), FALSE)} :
          /\ w.m_buckets = w0.m_buckets
          /\ w.bsize = w0.bsize
          /\ w.m_capacity = w0.m_capacity
    /\ w.m_size[1] = m_size[1] + Len(vals)
    /\ ForwardComplete(w, 1)
    /\ Traversal(w, 1) = Payloads(InsertSeq(ref[1], k, vals))
    /\ Without(ForwardNodes(w, 1), k, k + Len(vals)) = iters[1]
    /\ ValuesAt(w, BackwardNodes(w, 1)) = Reverse(Payloads(InsertSeq(ref[1], k, vals)))

\* C37: a range insert insert(pos, first, last) or count insert
\* insert(pos, count, value) of k elements appends at most one new block,
\* sized before the first element is written, and inserts the k values
\* immediately before pos in source order.
C37_BulkInsertGrowsOnce ==
    (Running /\ Coherent(1) /\ Coherent(2)) =>
        \A k \in Positions(1) :
            \A pos \in {IterAt(W, 1, k)} :
                /\ \A count \in 0..MaxElems, v \in Values :
                        InsertedAt(insert_count(W, 1, pos, count, v), k, Repeat(v, count))
                /\ \A i \in Positions(2), j \in Positions(2) :
                        i <= j =>
                            \A w \in {insert_range(W, 1, pos, IterAt(W, 2, i), IterAt(W, 2, j))} :
                                /\ InsertedAt(w, k, SubSeq(ref[2], i, j - 1))
                                /\ ForwardNodes(w, 2) = iters[2]
                                /\ Traversal(w, 2) = Payloads(ref[2])

\* A list with an element and one free slot, before whose element a range
\* of two different values is inserted: the second value goes into a block
\* appended before the first was written.
C37_Witness ==
    /\ Running /\ Coherent(1) /\ Coherent(2)
    /\ Len(ref[2]) = 2 /\ ref[2][1] # ref[2][2]
    /\ m_size[1] = 1 /\ m_capacity[1] = MIN_BUCKET_SIZE
    /\ \E w \in {insert_range(W, 1, iters[1][1], Begin(W, 2), End(W, 2))} :
            /\ InsertedAt(w, 1, ref[2])
            /\ Len(w.m_buckets[1]) = Len(m_buckets[1]) + 1
            /\ ForwardNodes(w, 1)[2][1] = w.m_buckets[1][Len(w.m_buckets[1])]

\* How often v occurs in s.
Occurrences(s, v) == Cardinality({i \in 1..Len(s) : s[i] = v})

\* The call that led to w has returned, and list 1 has the size and the
\* elements it had, each as often as before.
SameElements(w) ==
    /\ w.fault = "none"
    /\ w.m_size[1] = m_size[1]
    /\ ForwardComplete(w, 1)
    /\ Len(ForwardNodes(w, 1)) = m_size[1]
    /\ \A v \in Values :
            Occurrences(Traversal(w, 1), Some(v)) = Occurrences(ref[1], v)

\* C38: element splice and range splice with other being the same list as
\* this, and pos not inside [first, last) (including pos == last), terminate
\* and leave size() and the multiset of elements unchanged.
C38_SelfSpliceKeepsElements ==
    (Running /\ Coherent(1)) =>
        \A k \in Positions(1) :
            \A pos \in {IterAt(W, 1, k)} :
                /\ \A j \in 1..Len(iters[1]) :
                        k # j => SameElements(splice_one(W, 1, pos, 1, iters[1][j]))
                /\ \A i \in Positions(1), j \in Positions(1) :
                        (i <= j /\ ~(i <= k /\ k < j)) =>
                            SameElements(splice_range(W, 1, pos, 1,
                                                      IterAt(W, 1, i), IterAt(W, 1, j)))

\* C39: every call of fill_bucket_with_holes satisfies its assertions: the
\* block index is a valid non-sentinel index, elem_index is inside the
\* block, and first_hole does not designate a slot of the range being
\* refilled, in all callers (resize_to_fit, clear, optimize).
C39_FillAssertionsHold ==
    \* OrdersOf: the orders std::sort may leave the buckets of l in, where l
    \* has any. FillingCalls: the calls of the public functions of l that
    \* reach fill_bucket_with_holes and take no iterator: reserve, resize,
    \* clear, optimize.
    LET OrdersOf(w, l) ==
            IF HasSentinels(w, l) /\ w.m_size[l] > 0 THEN SortedOrders(w, l) ELSE {<<>>}
        FillingCalls(w, l) ==
            {reserve(w, l, n) : n \in 0..MaxReserve}
            \cup {resize(w, l, n) : n \in 0..MaxElems}
            \cup {clear(w, l)}
            \cup {optimize(w, l, shrink_to_fit, order) :
                        shrink_to_fit \in BOOLEAN, order \in OrdersOf(w, l)}
    IN
    /\ fault # "fill_assert"
    /\ Running =>
            \A l \in Lists :
                \A w \in FillingCalls(W, l) : w.fault # "fill_assert"

====
